---- MODULE Spec2Model ----
(***************************************************************************)
(* A model of the DialoP4 agents: the per-session result store of          *)
(* BaseAgent (save_result / load_result), the refinement loop of Refiner,  *)
(* the retrieval pipeline of RAGEngine and the knowledge gate of           *)
(* AgentCoordinator.process_message.                                       *)
(*                                                                         *)
(* Python strings are sequences of atoms.  An atom is a TLA+ string that   *)
(* holds none of the separator characters; the separators "_" and "." are  *)
(* atoms of their own, so that str.split sees exactly the fields it sees   *)
(* in the program.                                                         *)
(***************************************************************************)
EXTENDS Integers, Sequences, FiniteSets, TLC

\* ------------------------------------------------------------------ bounds

\* Largest number of result files written in one behaviour.
MaxSaves == 3
\* Largest configured max_iterations explored for a refinement run.
MaxIterations == 3
\* Largest number of documents in the knowledge base.
MaxDocs == 6

\* ------------------------------------------------------- program constants

\* rag_engine.py:420  enhanced_queries[:3]
MAX_QUERIES == 3
\* rag_engine.py:421  self.search(q, top_k=3)
SEARCH_TOP_K == 3
\* rag_engine.py:433  unique_docs[:5]
MAX_RETRIEVED == 5

\* ------------------------------------------------------------ Python values

None == [t |-> "none"]
PyStr(s) == [t |-> "str", v |-> s]
PyInt(n) == [t |-> "int", v |-> n]
PyList(l) == [t |-> "list", v |-> l]
\* A dict is its items in insertion order: a sequence of <<key, value>>.
PyDict(items) == [t |-> "dict", v |-> items]

\* dict.get(key): the value of the last item with this key, None when absent.
DictGet(d, key) ==
    IF d.t # "dict" THEN None
    ELSE LET hits == {i \in 1..Len(d.v) : d.v[i][1] = key}
         IN IF hits = {} THEN None
            ELSE d.v[CHOOSE i \in hits : \A j \in hits : j <= i][2]

\* d[key] = value on a dict: replaces the value in place or appends the item.
DictSet(d, key, value) ==
    IF \E i \in 1..Len(d.v) : d.v[i][1] = key
    THEN PyDict([i \in 1..Len(d.v) |->
                    IF d.v[i][1] = key THEN <<key, value>> ELSE d.v[i]])
    ELSE PyDict(Append(d.v, <<key, value>>))

\* --------------------------------------------------------------- JSON text

Punct(c) == [k |-> "p", v |-> <<c>>]
StrTok(s) == [k |-> "str", v |-> s]
NumTok(n) == [k |-> "num", v |-> <<ToString(n)>>]

RECURSIVE json_dump(_)
RECURSIVE DumpItems(_, _)
RECURSIVE DumpMembers(_, _)

\* The elements of a list, comma separated.
DumpItems(l, i) ==
    IF i > Len(l) THEN <<>>
    ELSE (IF i > 1 THEN <<Punct(",")>> ELSE <<>>)
         \o json_dump(l[i]) \o DumpItems(l, i + 1)

\* The members of a dict, "key": value, comma separated.
DumpMembers(m, i) ==
    IF i > Len(m) THEN <<>>
    ELSE (IF i > 1 THEN <<Punct(",")>> ELSE <<>>)
         \o <<StrTok(m[i][1]), Punct(":")>> \o json_dump(m[i][2])
         \o DumpMembers(m, i + 1)

\* json.dump: a Python value as JSON text (a sequence of tokens).
json_dump(x) ==
    CASE x.t = "str" -> <<StrTok(x.v)>>
      [] x.t = "int" -> <<NumTok(x.v)>>
      [] x.t = "none" -> <<Punct("null")>>
      [] x.t = "list" -> <<Punct("[")>> \o DumpItems(x.v, 1) \o <<Punct("]")>>
      [] x.t = "dict" -> <<Punct("{")>> \o DumpMembers(x.v, 1) \o <<Punct("}")>>

\* int(): the number a numeral denotes.
ParseInt(s) == CHOOSE n \in 0..(MaxIterations + MaxSaves + 2) : <<ToString(n)>> = s

IsPunct(tok, c) == tok.k = "p" /\ tok.v = <<c>>

RECURSIVE ParseValue(_, _)
RECURSIVE ParseItems(_, _, _)
RECURSIVE ParseMembers(_, _, _)

\* The rest of a list after "[" or after an element; i is the next token.
ParseItems(toks, i, acc) ==
    CASE i > Len(toks) -> [ok |-> FALSE]
      [] IsPunct(toks[i], "]") -> [ok |-> TRUE, val |-> PyList(acc), next |-> i + 1]
      [] IsPunct(toks[i], ",") -> ParseItems(toks, i + 1, acc)
      [] OTHER ->
           LET r == ParseValue(toks, i)
           IN IF r.ok THEN ParseItems(toks, r.next, Append(acc, r.val))
              ELSE [ok |-> FALSE]

\* The rest of a dict after "{" or after a member; i is the next token.
ParseMembers(toks, i, acc) ==
    CASE i > Len(toks) -> [ok |-> FALSE]
      [] IsPunct(toks[i], "}") -> [ok |-> TRUE, val |-> acc, next |-> i + 1]
      [] IsPunct(toks[i], ",") -> ParseMembers(toks, i + 1, acc)
      [] toks[i].k = "str" /\ i + 2 <= Len(toks) /\ IsPunct(toks[i + 1], ":") ->
           LET r == ParseValue(toks, i + 2)
           IN IF r.ok
              THEN ParseMembers(toks, r.next, DictSet(acc, toks[i].v, r.val))
              ELSE [ok |-> FALSE]
      [] OTHER -> [ok |-> FALSE]

\* One JSON value starting at token i.
ParseValue(toks, i) ==
    CASE i > Len(toks) -> [ok |-> FALSE]
      [] toks[i].k = "str" -> [ok |-> TRUE, val |-> PyStr(toks[i].v), next |-> i + 1]
      [] toks[i].k = "num" ->
           [ok |-> TRUE, val |-> PyInt(ParseInt(toks[i].v)), next |-> i + 1]
      [] IsPunct(toks[i], "null") -> [ok |-> TRUE, val |-> None, next |-> i + 1]
      [] IsPunct(toks[i], "[") -> ParseItems(toks, i + 1, <<>>)
      [] IsPunct(toks[i], "{") -> ParseMembers(toks, i + 1, PyDict(<<>>))
      [] OTHER -> [ok |-> FALSE]

\* json.load: [ok, val]; ok is FALSE where json.load raises.
json_load(toks) ==
    LET r == ParseValue(toks, 1)
    IN IF r.ok /\ r.next = Len(toks) + 1
       THEN [ok |-> TRUE, val |-> r.val]
       ELSE [ok |-> FALSE]

\* ------------------------------------------------------------ str and paths

\* str.split(sep): the fields of s between the occurrences of the atom sep.
RECURSIVE SplitFrom(_, _, _, _)
SplitFrom(s, sep, i, cur) ==
    IF i > Len(s) THEN <<cur>>
    ELSE IF s[i] = sep THEN <<cur>> \o SplitFrom(s, sep, i + 1, <<>>)
    ELSE SplitFrom(s, sep, i + 1, Append(cur, s[i]))

Split(s, sep) == SplitFrom(s, sep, 1, <<>>)

\* os.path.basename: what follows the last "/".
os_path_basename(path) == LET parts == Split(path, "/") IN parts[Len(parts)]

\* config['storage']['document_store_path'], the store of every agent: no
\* '<agent>_store_path' key exists in the configuration.
STORAGE_PATH == <<".", "/", "app", "/", "data", "/", "documents">>

\* self.storage_path / conversation_id
ConversationDir(conversation_id) == STORAGE_PATH \o <<"/", conversation_id>>

\* ------------------------------------------------------------------- state

VARIABLES
    files,        \* conversation id -> the files of its directory: {[name, text]}
    uuids,        \* how many uuid4 values have been drawn
    clock,        \* how many times datetime.now() has been read
    puts,         \* history: the save_result calls made, in order
    loaded,       \* what the last load_result call returned
    returned,     \* what the last agent operation handed back to its caller
    rf,           \* the refinement run in progress (Refiner.process)
    kb,           \* the knowledge base: documents and index rows of RAGEngine
    rq,           \* the retrieval in progress (RAGEngine.process)
    msg,          \* the chat message in progress (process_message)
    co,           \* request -> the coordinator operation it is running
    adds,         \* the add_document calls in progress and the state of the knowledge base files
    environ       \* the environment of the process: whether OPENAI_API_KEY holds a usable key

vars == <<files, uuids, clock, puts, loaded, returned, rf, kb, rq, msg, co, adds, environ>>

Sessions == {"c1", "c2"}

\* uuid.uuid4() as a string: hex groups joined by "-", never an underscore.
Uuid(n) == <<"u", "-", ToString(n)>>

\* An id generator that hands out the same id on every call.
generate_id_Fixed == Uuid(1)

\* BaseAgent.generate_id
generate_id == Uuid(uuids + 1)

\* datetime.now().isoformat()
Timestamp == <<"t", ToString(clock + 1)>>

\* f"{result_type}_{result_id}.json"
FileName(result_type, result_id) == result_type \o <<"_">> \o result_id \o <<".", "json">>

\* The envelope save_result writes around a result.
Envelope(agent, result_type, result_id, result) ==
    PyDict(<< <<<<"id">>, PyStr(result_id)>>,
              <<<<"type">>, PyStr(result_type)>>,
              <<<<"agent">>, PyStr(agent)>>,
              <<<<"timestamp">>, PyStr(Timestamp)>>,
              <<<<"data">>, result>> >>)

\* open(path, 'w') and write: the file of this name is replaced.
WriteFile(dir, name, text) ==
    {f \in dir : f.name # name} \cup {[name |-> name, text |-> text]}

\* BaseAgent.save_result: the directory of the conversation afterwards.
SavedDir(agent, result, result_type, conversation_id) ==
    WriteFile(files[conversation_id],
              FileName(result_type, generate_id),
              json_dump(Envelope(agent, result_type, generate_id, result)))

\* The path save_result returns.
SavedPath(result_type, conversation_id) ==
    ConversationDir(conversation_id) \o <<"/">> \o FileName(result_type, generate_id)

\* What one file gives load_result: the parsed envelope when its 'id' is the
\* one asked for, None when the file does not parse or holds another id.
FileMatch_AnyId(f, result_id) ==
    LET r == json_load(f.text)
    IN IF r.ok /\ r.val.t = "dict" THEN r.val ELSE None
FileMatch(f, result_id) ==
    LET r == json_load(f.text)
    IN IF r.ok /\ r.val.t = "dict" /\ DictGet(r.val, <<"id">>) = PyStr(result_id)
       THEN r.val
       ELSE None

\* BaseAgent.load_result: the envelopes it can return.  glob("*.json") yields the
\* files in an order the file system picks, and the first match is returned,
\* so every matching file is a possible result; None when no file matches.
load_result(result_id, conversation_id) ==
    LET globbed == {f \in files[conversation_id] :
                       Len(f.name) >= 2 /\ SubSeq(f.name, Len(f.name) - 1, Len(f.name))
                                               = <<".", "json">>}
        hits == {FileMatch(f, result_id) : f \in globbed} \ {None}
    IN IF hits = {} THEN {None} ELSE hits

\* os.path.basename(result_path).split("_")[1].split(".")[0]
ResultIdOf(result_path) ==
    Split(Split(os_path_basename(result_path), "_")[2], ".")[1]

\* --------------------------------------------------------- results (payloads)

Titles == {<<"X">>, <<"Y">>}
CodeTypes == {<<"python">>, <<"p4">>}

\* PaperAnalyzer.process: the result it builds (analysis and summary are the
\* generation capability's text).
AnalysisResult(title) ==
    PyDict(<< <<<<"title">>, PyStr(title)>>,
              <<<<"authors">>, PyList(<<PyStr(<<"A">>), PyStr(<<"B">>)>>)>>,
              <<<<"analysis">>,
                PyDict(<< <<<<"concepts">>,
                            PyDict(<< <<<<"key", "_", "concepts">>, PyStr(<<"k">>)>> >>)>>,
                          <<<<"evaluation">>,
                            PyDict(<< <<<<"metrics">>, PyStr(<<"m">>)>> >>)>> >>)>>,
              <<<<"summary">>, PyStr(<<"s">>)>> >>)

\* CodeGenerator.process: the result it builds.
CodeResult(title, code_type) ==
    PyDict(<< <<<<"title">>, PyStr(title)>>,
              <<<<"code", "_", "type">>, PyStr(code_type)>>,
              <<<<"implementation">>,
                PyDict(<< <<<<"code">>, PyStr(<<"c0">>)>> >>)>> >>)

\* Evaluator.process: the result it builds.
EvaluationResult(code_type) ==
    PyDict(<< <<<<"code", "_", "type">>, PyStr(code_type)>>,
              <<<<"correctness">>,
                PyDict(<< <<<<"score">>, PyStr(<<"7">>)>> >>)>> >>)

\* The payloads handed to save_result directly.
Payloads ==
    {PyDict(<< <<<<"title">>, PyStr(<<"X">>)>> >>),
     PyDict(<< <<<<"iteration">>, PyInt(1)>>,
               <<<<"changes">>, PyList(<<PyStr(<<"a">>), PyStr(<<"b">>)>>)>> >>)}

\* The session contexts the coordinator writes beside the results.
Contexts ==
    {PyDict(<< <<<<"paper", "_", "analysis">>, AnalysisResult(<<"X">>)>> >>)}

\* ----------------------------------------------------------- store actions

NoLoad == [op |-> "none"]
NoReturn == [op |-> "none"]

\* No request is being served by the coordinator; no add_document call is
\* running.
NoRequests == <<>>
NoWriters == [w |-> <<>>]

\* The environment with OPENAI_API_KEY set to a usable key, and without.
Configured == [api_key |-> TRUE]
Unconfigured == [api_key |-> FALSE]

\* The parts of the state the store does not touch.
IdleRun == [pc |-> "idle"]
EmptyKb == [documents |-> <<>>, index |-> <<>>, disk_index |-> <<>>, disk_docs |-> <<>>]

InitStore ==
    /\ files = [c \in Sessions |-> {}]
    /\ uuids = 0
    /\ clock = 0
    /\ puts = <<>>
    /\ loaded = NoLoad
    /\ returned = NoReturn
    /\ co = NoRequests
    /\ adds = NoWriters
    /\ environ = Configured

\* save_result as every caller sees it: the file written, the id and the
\* time consumed, and the call recorded in the history.
SaveWrites(agent, result, result_type, conversation_id) ==
    /\ files' = [files EXCEPT ![conversation_id] =
                    SavedDir(agent, result, result_type, conversation_id)]
    /\ uuids' = uuids + 1
    /\ clock' = clock + 1
    /\ puts' = Append(puts, [conversation_id |-> conversation_id,
                             id |-> generate_id,
                             result_type |-> result_type,
                             data |-> result])

\* save_result, as many times as the store is followed for.
SaveEffect(agent, result, result_type, conversation_id) ==
    /\ Len(puts) < MaxSaves
    /\ SaveWrites(agent, result, result_type, conversation_id)

\* BaseAgent.save_result called directly (put).
SaveResult ==
    \E conversation_id \in Sessions, result \in Payloads :
        /\ SaveEffect(<<"paper", "_", "analyzer">>, result,
                      <<"paper", "_", "analysis">>, conversation_id)
        /\ UNCHANGED <<loaded, returned, rf, kb, rq, msg, co, adds, environ>>

\* The ids a caller may ask for: the ids generated so far, one never
\* generated, and the id the last operation handed back.
AskedIds ==
    {Uuid(n) : n \in 1..(uuids + 1)}
        \cup (IF returned.op = "none" THEN {} ELSE {returned.result_id})

\* BaseAgent.load_result (get).
LoadResult ==
    \E conversation_id \in Sessions, result_id \in AskedIds :
        \E r \in load_result(result_id, conversation_id) :
            /\ loaded' = [op |-> "load", conversation_id |-> conversation_id,
                          result_id |-> result_id, result |-> r]
            /\ UNCHANGED <<files, uuids, clock, puts, returned, rf, kb, rq, msg, co, adds, environ>>

\* AgentCoordinator._save_conversation_context: context.json of the session,
\* in the directory the results are in.
SavedContextDir(conversation_id, context) ==
    WriteFile(files[conversation_id], <<"context", ".", "json">>, json_dump(context))

SaveContext ==
    \E conversation_id \in Sessions, context \in Contexts :
        /\ files' = [files EXCEPT ![conversation_id] =
                        SavedContextDir(conversation_id, context)]
        /\ UNCHANGED <<uuids, clock, puts, loaded, returned, rf, kb, rq, msg, co, adds, environ>>

InitIdle ==
    /\ rf = IdleRun
    /\ kb = EmptyKb
    /\ rq = IdleRun
    /\ msg = IdleRun

StoreInit == InitStore /\ InitIdle
StoreNext == SaveResult \/ LoadResult \/ SaveContext

\* The result store alone: put, get and the context file beside the results.
SpecStore == StoreInit /\ [][StoreNext]_vars

\* C1: round trip.  Every payload stored by save_result is what load_result
\* returns, as the 'data' of the envelope, for the session and the id it was
\* stored under, whatever else has been stored in any session since.
C1_RoundTrip ==
    \A i \in 1..Len(puts) :
        \A e \in load_result(puts[i].id, puts[i].conversation_id) :
            /\ e # None
            /\ DictGet(e, <<"data">>) = puts[i].data

\* A load of the first stored artifact after a second artifact and the
\* context file were written into the same session.
C1_Witness ==
    /\ Len(puts) >= 2
    /\ puts[1].conversation_id = puts[2].conversation_id
    /\ puts[1].data # puts[2].data
    /\ \E f \in files[puts[1].conversation_id] : f.name = <<"context", ".", "json">>
    /\ loaded.op = "load"
    /\ loaded.result_id = puts[1].id
    /\ loaded.conversation_id = puts[1].conversation_id
    /\ loaded.result # None
    /\ DictGet(loaded.result, <<"data">>) = puts[1].data

\* ------------------------------------------------- the agents' process tail

\* The lines every process() ends with:
\*   result_path = self.save_result(result, result_type, conversation_id)
\*   result["result_path"] = result_path
\*   result["result_id"] = os.path.basename(result_path).split("_")[1].split(".")[0]
\* The caller gets the result with the two keys added.
ProcessTail(op, agent, result, result_type, conversation_id) ==
    /\ SaveEffect(agent, result, result_type, conversation_id)
    /\ returned' = [op |-> op,
                    conversation_id |-> conversation_id,
                    result_path |-> SavedPath(result_type, conversation_id),
                    result_id |-> ResultIdOf(SavedPath(result_type, conversation_id)),
                    data |-> result]

\* PaperAnalyzer.process (analyze).
PaperAnalyzerProcess ==
    \E conversation_id \in Sessions, title \in Titles :
        /\ ProcessTail("analyze", <<"paper", "_", "analyzer">>, AnalysisResult(title),
                       <<"paper", "_", "analysis">>, conversation_id)
        /\ UNCHANGED <<loaded, rf, kb, rq, msg, co, adds, environ>>

\* CodeGenerator.process (generate).
CodeGeneratorProcess ==
    \E conversation_id \in Sessions, code_type \in CodeTypes :
        /\ ProcessTail("generate", <<"code", "_", "generator">>,
                       CodeResult(<<"X">>, code_type),
                       code_type \o <<"_", "code">>, conversation_id)
        /\ UNCHANGED <<loaded, rf, kb, rq, msg, co, adds, environ>>

\* Evaluator.process (evaluate).
EvaluatorProcess ==
    \E conversation_id \in Sessions, code_type \in CodeTypes :
        /\ ProcessTail("evaluate", <<"evaluator">>, EvaluationResult(code_type),
                       code_type \o <<"_", "evaluation">>, conversation_id)
        /\ UNCHANGED <<loaded, rf, kb, rq, msg, co, adds, environ>>

OpsNext == PaperAnalyzerProcess \/ CodeGeneratorProcess \/ EvaluatorProcess \/ LoadResult

\* The agents that persist one result per call, and get.
SpecOps == StoreInit /\ [][OpsNext]_vars

\* C2: the 'result_id' an operation hands back is the id of the artifact it
\* persisted: load_result with the same session and that id returns the
\* envelope holding the payload that was stored.
C2_ReturnedIdLoads ==
    returned.op # "none" =>
        \A e \in load_result(returned.result_id, returned.conversation_id) :
            /\ e # None
            /\ DictGet(e, <<"data">>) = returned.data

\* ------------------------------------------------------- text of the model

\* Text the generation capability returns is a sequence of characters.
UPPER == <<"A", "B", "C", "D", "E", "F", "G", "H", "I", "J", "K", "L", "M",
           "N", "O", "P", "Q", "R", "S", "T", "U", "V", "W", "X", "Y", "Z">>
LOWER == <<"a", "b", "c", "d", "e", "f", "g", "h", "i", "j", "k", "l", "m",
           "n", "o", "p", "q", "r", "s", "t", "u", "v", "w", "x", "y", "z">>

\* str.lower()
Lower(s) ==
    [i \in 1..Len(s) |->
        IF \E j \in 1..26 : UPPER[j] = s[i]
        THEN LOWER[CHOOSE j \in 1..26 : UPPER[j] = s[i]]
        ELSE s[i]]

\* needle in hay
Contains(hay, needle) ==
    \E i \in 0..(Len(hay) - Len(needle)) : SubSeq(hay, i + 1, i + Len(needle)) = needle

\* "no remaining issues"
NO_REMAINING_ISSUES == <<"n", "o", " ", "r", "e", "m", "a", "i", "n", "i", "n", "g", " ", "i", "s", "s", "u", "e", "s">>
\* "low priority"
LOW_PRIORITY == <<"l", "o", "w", " ", "p", "r", "i", "o", "r", "i", "t", "y">>

\* The remaining_issues texts the evaluator may return.
\* "No remaining issues"
TextNone == <<"N", "o", " ", "r", "e", "m", "a", "i", "n", "i", "n", "g", " ", "i", "s", "s", "u", "e", "s">>
\* "Only Low Priority issues"
TextLow == <<"O", "n", "l", "y", " ", "L", "o", "w", " ", "P", "r", "i", "o", "r", "i", "t", "y", " ", "i", "s", "s", "u", "e", "s">>
\* "several high priority issues"
TextHigh == <<"s", "e", "v", "e", "r", "a", "l", " ", "h", "i", "g", "h", " ", "p", "r", "i", "o", "r", "i", "t", "y", " ", "i", "s", "s", "u", "e", "s">>
\* "a high priority bug, a low priority nit"
TextMixed == <<"a", " ", "h", "i", "g", "h", " ", "p", "r", "i", "o", "r", "i", "t", "y", " ", "b", "u", "g", ",", " ", "a", " ", "l", "o", "w", " ", "p", "r", "i", "o", "r", "i", "t", "y", " ", "n", "i", "t">>
\* "No remaining issues but low priority ones"
TextBoth == <<"N", "o", " ", "r", "e", "m", "a", "i", "n", "i", "n", "g", " ", "i", "s", "s", "u", "e", "s", " ", "b", "u", "t", " ", "l", "o", "w", " ", "p", "r", "i", "o", "r", "i", "t", "y", " ", "o", "n", "e", "s">>

IssueTexts == {TextNone, TextLow, TextHigh, TextMixed, TextBoth}

\* ------------------------------------------------------ Refiner.process

\* What the caller may pass as user_feedback: '' or some text.
Feedbacks == {<<>>, <<"f", "b">>}
\* What the refiner (the Apply step) may return as refined_code.
RefinedCodes == {<<"c1">>, <<"c2">>}
\* code_result.get('implementation', {}).get('code', '')
ORIGINAL_CODE == <<"c0">>
\* What the planner (the Plan step) may return as refinement_plan.
Plans == {<<"p1">>, <<"p2">>}

\* The code each step of an iteration is given.  The planner and the refiner
\* get current_code (code=current_code, original_code=current_code); the
\* evaluator gets the original_code read before the loop.
PlanCode(run) == run.current_code
ApplyCode(run) == run.current_code
EvaluateOriginal_Current(run) == run.current_code
EvaluateOriginal(run) == run.original_code

\* for iteration in range(self.max_iterations): the loop body runs again.
HasNext_Mutant(iteration, max_iterations) == iteration <= max_iterations
HasNext(iteration, max_iterations) == iteration < max_iterations

\* The break test after an iteration:
\*   "no remaining issues" in remaining_issues or
\*   ("low priority" in remaining_issues and iteration >= 1)
\* on remaining_issues = evaluate_result.remaining_issues.lower().
ShouldBreak_NoFirst(remaining_issues, iteration) ==
    Contains(Lower(remaining_issues), LOW_PRIORITY) /\ iteration >= 1
ShouldBreak_AnyIteration(remaining_issues, iteration) ==
    \/ Contains(Lower(remaining_issues), NO_REMAINING_ISSUES)
    \/ Contains(Lower(remaining_issues), LOW_PRIORITY)
ShouldBreak_Always(remaining_issues, iteration) == TRUE
ShouldBreak(remaining_issues, iteration) ==
    \/ Contains(Lower(remaining_issues), NO_REMAINING_ISSUES)
    \/ (Contains(Lower(remaining_issues), LOW_PRIORITY) /\ iteration >= 1)

\* user_feedback = '' at the end of an iteration that does not break.
ConsumedFeedback_Mutant(user_feedback) == user_feedback
ConsumedFeedback(user_feedback) == <<>>

\* The refiner as constructed: max_iterations read from the configuration.
InitRefiner ==
    \E m \in 0..MaxIterations : rf = [pc |-> "idle", max_iterations |-> m]

\* process() up to the loop: the inputs are read, the history is empty.
RefinerStart ==
    \E conversation_id \in Sessions, code_type \in CodeTypes, user_feedback \in Feedbacks :
        /\ rf.pc = "idle"
        /\ rf' = [pc |-> "loop",
                  max_iterations |-> rf.max_iterations,
                  conversation_id |-> conversation_id,
                  code_type |-> code_type,
                  given_feedback |-> user_feedback,
                  user_feedback |-> user_feedback,
                  original_code |-> ORIGINAL_CODE,
                  current_code |-> ORIGINAL_CODE,
                  iteration |-> 0,
                  refinement_history |-> <<>>,
                  plan_calls |-> <<>>,
                  refine_calls |-> <<>>,
                  evaluate_calls |-> <<>>,
                  refinement_plan |-> <<>>,
                  refined_code |-> <<>>,
                  exit |-> "none"]
        /\ UNCHANGED <<files, uuids, clock, puts, loaded, returned, kb, rq, msg, co, adds, environ>>

\* self.planner(code=current_code, evaluation=..., user_feedback=user_feedback)
RefinerPlan ==
    \E refinement_plan \in Plans :
        /\ rf.pc = "loop"
        /\ HasNext(rf.iteration, rf.max_iterations)
        /\ rf' = [rf EXCEPT
                    !.pc = "apply",
                    !.plan_calls = Append(@, [code |-> PlanCode(rf),
                                              user_feedback |-> rf.user_feedback,
                                              refinement_plan |-> refinement_plan]),
                    !.refinement_plan = refinement_plan]
        /\ UNCHANGED <<files, uuids, clock, puts, loaded, returned, kb, rq, msg, co, adds, environ>>

\* self.refiner(original_code=current_code, refinement_plan=..., ...)
RefinerApply ==
    \E refined_code \in RefinedCodes :
        /\ rf.pc = "apply"
        /\ rf' = [rf EXCEPT
                    !.pc = "evaluate",
                    !.refine_calls = Append(@, [original_code |-> ApplyCode(rf),
                                                refinement_plan |-> rf.refinement_plan,
                                                refined_code |-> refined_code]),
                    !.refined_code = refined_code]
        /\ UNCHANGED <<files, uuids, clock, puts, loaded, returned, kb, rq, msg, co, adds, environ>>

\* self.evaluator(original_code=original_code, refined_code=..., ...) and the
\* rest of the loop body: the record is appended, current_code updated, then
\* either the break or the reset of user_feedback and the next iteration.
RefinerEvaluate ==
    \E remaining_issues \in IssueTexts :
        /\ rf.pc = "evaluate"
        /\ rf' = [rf EXCEPT
                    !.evaluate_calls = Append(@, [original_code |-> EvaluateOriginal(rf),
                                                  refined_code |-> rf.refined_code,
                                                  refinement_plan |-> rf.refinement_plan]),
                    !.refinement_history =
                        Append(@, [iteration |-> rf.iteration + 1,
                                   refined_code |-> rf.refined_code,
                                   remaining_issues |-> remaining_issues]),
                    !.current_code = rf.refined_code,
                    !.pc = IF ShouldBreak(remaining_issues, rf.iteration)
                           THEN "build" ELSE "loop",
                    !.exit = IF ShouldBreak(remaining_issues, rf.iteration)
                             THEN "break" ELSE "none",
                    !.user_feedback = IF ShouldBreak(remaining_issues, rf.iteration)
                                      THEN @ ELSE ConsumedFeedback(@),
                    !.iteration = IF ShouldBreak(remaining_issues, rf.iteration)
                                  THEN @ ELSE @ + 1]
        /\ UNCHANGED <<files, uuids, clock, puts, loaded, returned, kb, rq, msg, co, adds, environ>>

\* One iteration_record as it is stored.
IterationRecord(r) ==
    PyDict(<< <<<<"iteration">>, PyInt(r.iteration)>>,
              <<<<"changes">>,
                PyDict(<< <<<<"refined", "_", "code">>, PyStr(r.refined_code)>> >>)>>,
              <<<<"evaluation">>,
                PyDict(<< <<<<"remaining", "_", "issues">>,
                            PyStr(r.remaining_issues)>> >>)>> >>)

\* refined_code_result
RefinedResult(run) ==
    PyDict(<< <<<<"title">>, PyStr(<<"X">>)>>,
              <<<<"code", "_", "type">>, PyStr(run.code_type)>>,
              <<<<"original", "_", "code">>, PyStr(run.original_code)>>,
              <<<<"refined", "_", "code">>, PyStr(run.current_code)>>,
              <<<<"refinement", "_", "history">>,
                PyList([i \in 1..Len(run.refinement_history) |->
                            IterationRecord(run.refinement_history[i])])>> >>)

\* After the loop: the result is built and saved, and handed back.
RefinerFinish ==
    /\ \/ rf.pc = "build"
       \/ rf.pc = "loop" /\ ~HasNext(rf.iteration, rf.max_iterations)
    /\ ProcessTail("refine", <<"refiner">>, RefinedResult(rf),
                   rf.code_type \o <<"_", "refined">>, rf.conversation_id)
    /\ rf' = [rf EXCEPT !.pc = "done",
                        !.exit = IF rf.pc = "build" THEN @ ELSE "cap"]
    /\ UNCHANGED <<loaded, kb, rq, msg, co, adds, environ>>

RefineInit ==
    /\ InitStore
    /\ InitRefiner
    /\ kb = EmptyKb
    /\ rq = IdleRun
    /\ msg = IdleRun

RefineNext ==
    RefinerStart \/ RefinerPlan \/ RefinerApply \/ RefinerEvaluate \/ RefinerFinish

\* One refinement run, from the call of Refiner.process to its return.
SpecRefine == RefineInit /\ [][RefineNext]_vars

Running == rf.pc \in {"loop", "apply", "evaluate", "build", "done"}
Stopped == rf.pc \in {"build", "done"}

\* remaining_issues matches the "no remaining issues" signal.
NoIssuesSignal(text) == Contains(Lower(text), NO_REMAINING_ISSUES)
\* remaining_issues matches the low-priority signal and not the other one.
LowPrioritySignal(text) ==
    Contains(Lower(text), LOW_PRIORITY) /\ ~Contains(Lower(text), NO_REMAINING_ISSUES)

\* The refinement_history of the persisted run, read back from its file.
PersistedHistories ==
    {DictGet(DictGet(e, <<"data">>), <<"refinement", "_", "history">>).v :
        e \in UNION {load_result(puts[i].id, puts[i].conversation_id) :
                        i \in 1..Len(puts)} \ {None}}

\* C3: loop bound.  The history never holds more than max_iterations records
\* during a run, and the history of the persisted run is no longer either.
C3_LoopBound ==
    /\ Running => Len(rf.refinement_history) <= rf.max_iterations
    /\ rf.pc = "done" =>
          /\ PersistedHistories # {}
          /\ \A h \in PersistedHistories :
                Len(h) <= rf.max_iterations /\ Len(h) = Len(rf.refinement_history)

\* A finished run that was stopped by the cap with a full history.
C3_Witness ==
    /\ rf.pc = "done"
    /\ rf.max_iterations = MaxIterations
    /\ Len(rf.refinement_history) = rf.max_iterations
    /\ \E h \in PersistedHistories : Len(h) = rf.max_iterations

\* C4: early stop on no issues.  When the evaluation of iteration 1 matches
\* "no remaining issues", the run stops there: history length is exactly 1.
C4_StopNoIssues ==
    (/\ Running
     /\ Len(rf.refinement_history) >= 1
     /\ NoIssuesSignal(rf.refinement_history[1].remaining_issues))
    => (Stopped /\ Len(rf.refinement_history) = 1)

\* A finished run of more than one allowed iteration stopped after the first.
C4_Witness ==
    /\ rf.pc = "done"
    /\ rf.max_iterations >= 2
    /\ Len(rf.refinement_history) = 1
    /\ NoIssuesSignal(rf.refinement_history[1].remaining_issues)
    /\ rf.exit = "break"

\* C5: early stop on low priority.  With max_iterations >= 2, a low-priority
\* signal on iteration 1 does not stop the run, and a low-priority signal on
\* iterations 1 and 2 stops it after iteration 2: history length exactly 2.
C5_StopLowPriority ==
    /\ (/\ Running
        /\ rf.max_iterations >= 2
        /\ Len(rf.refinement_history) = 1
        /\ LowPrioritySignal(rf.refinement_history[1].remaining_issues))
       => ~Stopped
    /\ (/\ Running
        /\ Len(rf.refinement_history) >= 2
        /\ LowPrioritySignal(rf.refinement_history[1].remaining_issues)
        /\ LowPrioritySignal(rf.refinement_history[2].remaining_issues))
       => (Stopped /\ Len(rf.refinement_history) = 2)

\* A finished run of more than two allowed iterations stopped after the
\* second, both evaluations reporting low priority only.
C5_Witness ==
    /\ rf.pc = "done"
    /\ rf.max_iterations >= 3
    /\ Len(rf.refinement_history) = 2
    /\ LowPrioritySignal(rf.refinement_history[1].remaining_issues)
    /\ LowPrioritySignal(rf.refinement_history[2].remaining_issues)
    /\ rf.exit = "break"

\* No evaluation of the run matched either signal.
NoSignal(h) ==
    \A i \in 1..Len(h) :
        /\ ~Contains(Lower(h[i].remaining_issues), NO_REMAINING_ISSUES)
        /\ ~Contains(Lower(h[i].remaining_issues), LOW_PRIORITY)

\* C6: default is to continue.  A run none of whose evaluations matches a
\* signal performs exactly max_iterations iterations and ends by the cap.
C6_DefaultContinue ==
    (rf.pc = "done" /\ NoSignal(rf.refinement_history))
    => (Len(rf.refinement_history) = rf.max_iterations /\ rf.exit = "cap")

\* Three iterations, each reporting high priority issues, ended by the cap.
C6_Witness ==
    /\ rf.pc = "done"
    /\ rf.max_iterations = 3
    /\ Len(rf.refinement_history) = 3
    /\ \A i \in 1..3 : rf.refinement_history[i].remaining_issues = TextHigh
    /\ rf.exit = "cap"

\* C7: one-shot feedback.  The Plan step of iteration 1 gets the caller's
\* user_feedback; the Plan step of every later iteration gets ''.
C7_OneShotFeedback ==
    Running =>
        \A i \in 1..Len(rf.plan_calls) :
            rf.plan_calls[i].user_feedback =
                (IF i = 1 THEN rf.given_feedback ELSE <<>>)

\* A run given feedback whose second Plan step has been called.
C7_Witness ==
    /\ Running
    /\ rf.given_feedback # <<>>
    /\ Len(rf.plan_calls) >= 2
    /\ rf.plan_calls[1].user_feedback = rf.given_feedback
    /\ rf.plan_calls[2].user_feedback = <<>>

\* ------------------------------------------------------ the knowledge base

\* _get_embedding returns a random vector, whatever the text.  The model
\* draws it from a two-point space; distances are squared L2 as in
\* faiss.IndexFlatL2.
VecSpace == {0, 1}
Dist(a, b) == (a - b) * (a - b)

DocContents == {<<"summary">>}

\* The metadata add_paper_to_knowledge_base attaches: it holds no 'id'.
BaseMetadata(conversation_id) ==
    PyDict(<< <<<<"source", "_", "type">>, PyStr(<<"paper", "_", "analysis">>)>>,
              <<<<"conversation", "_", "id">>, PyStr(<<conversation_id>>)>> >>)

\* Document.__init__: self.id = metadata.get('id', str(uuid.uuid4()))
Document(content, metadata, fresh) ==
    [id |-> IF DictGet(metadata, <<"id">>) = None
            THEN fresh ELSE DictGet(metadata, <<"id">>).v,
     content |-> content,
     metadata |-> metadata]

\* add_document and the _save_knowledge_base it ends with: the vector is
\* appended to the index, the document to the list, and both are written
\* out (the list as content and metadata only).
KbAfterAdd(k, content, metadata, embedding, fresh) ==
    LET documents == Append(k.documents, Document(content, metadata, fresh))
        index == Append(k.index, embedding)
    IN [documents |-> documents,
        index |-> index,
        disk_index |-> index,
        disk_docs |-> [i \in 1..Len(documents) |->
                          [content |-> documents[i].content,
                           metadata |-> documents[i].metadata]]]

\* RAGEngine.add_document
add_document ==
    \E content \in DocContents, conversation_id \in {"c1"}, embedding \in VecSpace :
        /\ rq.pc = "idle"
        /\ msg.pc = "idle"
        /\ Len(kb.documents) < MaxDocs
        /\ kb' = KbAfterAdd(kb, content, BaseMetadata(conversation_id), embedding,
                            generate_id)
        /\ uuids' = uuids + 1
        /\ UNCHANGED <<files, clock, puts, loaded, returned, rf, rq, msg, co, adds, environ>>

Min(a, b) == IF a < b THEN a ELSE b

\* index.search(query, n): the rows of the n nearest vectors, nearest first,
\* equal distances by row; -1 where the index holds fewer than n vectors.
TopRows(index, qv, n) ==
    LET Before(s, r) ==
            \/ Dist(index[s], qv) < Dist(index[r], qv)
            \/ Dist(index[s], qv) = Dist(index[r], qv) /\ s < r
        Rank(r) == Cardinality({s \in 1..Len(index) : Before(s, r)}) + 1
    IN [i \in 1..n |->
          IF i <= Len(index)
          THEN CHOOSE r \in 1..Len(index) : Rank(r) = i
          ELSE -1]

\* list[idx] for a row faiss returned: -1 is the last element.
AtRow(list, idx) == IF idx = -1 THEN list[Len(list)] ELSE list[idx]

\* RAGEngine.search(query, top_k) with the query embedded as qv.
search(k, qv, top_k) ==
    IF Len(k.documents) = 0 THEN <<>>
    ELSE LET n == Min(top_k, Len(k.documents))
             rows == TopRows(k.index, qv, n)
         IN [i \in 1..n |-> AtRow(k.documents, rows[i])]

\* --------------------------------------------------------- RAGEngine.process

\* "insufficient knowledge": the fixed sentence of rag_engine.py:471, which
\* coordinator.py:142 compares with.
INSUFFICIENT_KNOWLEDGE == <<"insufficient", " ", "knowledge">>
\* The fixed relevance_analysis of rag_engine.py:469.
NO_DOCUMENTS_FOUND == <<"no", " ", "documents">>

QUERY == <<"q">>

\* What the query generator may return as enhanced_queries, one per line.
Expansions ==
    {<<"e1", "\n", "e2">>,
     <<"q", "\n", "e1">>,
     <<"e1", "\n", "e2", "\n", "e3">>}

\* What the knowledge integrator may return as integrated_knowledge.
Answers == {<<"answer">>, <<>>, INSUFFICIENT_KNOWLEDGE}

\* list[:n]
Take(l, n) == SubSeq(l, 1, Min(n, Len(l)))

\* The queries to search: the enhanced queries, with the original query
\* appended when it is not among them.
KeepOriginal(query, enhanced_queries) ==
    IF \E i \in 1..Len(enhanced_queries) : enhanced_queries[i] = query
    THEN enhanced_queries
    ELSE Append(enhanced_queries, query)

\* for q in enhanced_queries[:3]
SearchedQueries(enhanced_queries) == Take(enhanced_queries, MAX_QUERIES)

\* The dedup loop: the documents of all_docs whose id was not seen before,
\* in order.
RECURSIVE UniqueFrom(_, _, _, _)
UniqueFrom(all_docs, i, unique_docs, doc_ids) ==
    IF i > Len(all_docs) THEN unique_docs
    ELSE IF all_docs[i].id \in doc_ids
    THEN UniqueFrom(all_docs, i + 1, unique_docs, doc_ids)
    ELSE UniqueFrom(all_docs, i + 1, Append(unique_docs, all_docs[i]),
                    doc_ids \cup {all_docs[i].id})

Unique_NoDedup(all_docs) == all_docs
Unique(all_docs) == UniqueFrom(all_docs, 1, <<>>, {})

\* retrieved_docs = unique_docs[:5]
Retrieved(all_docs) == Take(Unique(all_docs), MAX_RETRIEVED)

\* The start of process(): the query list is built.  has_context is the
\* truth value of paper_context; expansion is the query generator's text.
RagBegin(query, has_context, expansion, conversation_id) ==
    [pc |-> "search",
     conversation_id |-> conversation_id,
     query |-> query,
     has_context |-> has_context,
     enhanced_queries |->
        KeepOriginal(query, IF has_context THEN Split(expansion, "\n")
                            ELSE <<query>>),
     searched |-> 0,
     all_docs |-> <<>>,
     retrieved_docs |-> <<>>]

\* RAGEngine.process called on its own (retrieve).
RetrieveStart ==
    \E has_context \in BOOLEAN, expansion \in Expansions, conversation_id \in {"c1"} :
        /\ rq.pc = "idle"
        /\ msg.pc = "idle"
        /\ rq' = RagBegin(QUERY, has_context, expansion, conversation_id)
        /\ UNCHANGED <<files, uuids, clock, puts, loaded, returned, rf, kb, msg, co, adds, environ>>

\* One turn of the search loop: docs = self.search(q, top_k=3).
RagSearch ==
    \E qv \in VecSpace :
        /\ rq.pc = "search"
        /\ rq.searched < Len(SearchedQueries(rq.enhanced_queries))
        /\ rq' = [rq EXCEPT !.searched = @ + 1,
                            !.all_docs = @ \o search(kb, qv, SEARCH_TOP_K)]
        /\ UNCHANGED <<files, uuids, clock, puts, loaded, returned, rf, kb, msg, co, adds, environ>>

StoredDocuments(docs) ==
    PyList([i \in 1..Len(docs) |->
               PyDict(<< <<<<"content">>, PyStr(docs[i].content)>>,
                         <<<<"metadata">>, docs[i].metadata>> >>)])

QueryList(qs) == PyList([i \in 1..Len(qs) |-> PyStr(qs[i])])

\* The result process() builds: with documents, the analyzer's score and
\* the integrator's answer; without, the fixed answer and the score "0".
RagResult_NoSentinel(run, retrieved_docs, reliability_score, integrated_knowledge) ==
    PyDict(<< <<<<"query">>, PyStr(run.query)>>,
              <<<<"enhanced", "_", "queries">>, QueryList(run.enhanced_queries)>>,
              <<<<"retrieved", "_", "documents">>, StoredDocuments(retrieved_docs)>>,
              <<<<"relevance", "_", "analysis">>, PyStr(<<"relevant">>)>>,
              <<<<"reliability", "_", "score">>, PyStr(reliability_score)>>,
              <<<<"integrated", "_", "knowledge">>, PyStr(integrated_knowledge)>> >>)
RagResult(run, retrieved_docs, reliability_score, integrated_knowledge) ==
    PyDict(<< <<<<"query">>, PyStr(run.query)>>,
              <<<<"enhanced", "_", "queries">>, QueryList(run.enhanced_queries)>>,
              <<<<"retrieved", "_", "documents">>,
                IF Len(retrieved_docs) > 0
                THEN StoredDocuments(retrieved_docs) ELSE PyList(<<>>)>>,
              <<<<"relevance", "_", "analysis">>,
                PyStr(IF Len(retrieved_docs) > 0
                      THEN <<"relevant">> ELSE NO_DOCUMENTS_FOUND)>>,
              <<<<"reliability", "_", "score">>,
                PyStr(IF Len(retrieved_docs) > 0
                      THEN reliability_score ELSE <<"0">>)>>,
              <<<<"integrated", "_", "knowledge">>,
                PyStr(IF Len(retrieved_docs) > 0
                      THEN integrated_knowledge ELSE INSUFFICIENT_KNOWLEDGE)>> >>)

\* After the search loop: dedup, cap, the two calls of the generation
\* capability when there are documents, and the result saved and returned.
RagFinish ==
    \E reliability_score \in {<<"8">>}, integrated_knowledge \in Answers :
        /\ rq.pc = "search"
        /\ rq.searched = Len(SearchedQueries(rq.enhanced_queries))
        /\ ProcessTail("retrieve", <<"rag", "_", "engine">>,
                       RagResult(rq, Retrieved(rq.all_docs), reliability_score,
                                 integrated_knowledge),
                       <<"rag", "_", "result">>, rq.conversation_id)
        /\ rq' = [rq EXCEPT !.pc = "done",
                            !.retrieved_docs = Retrieved(rq.all_docs)]
        /\ UNCHANGED <<loaded, rf, kb, msg, co, adds, environ>>

RetrieveInit ==
    /\ InitStore
    /\ rf = IdleRun
    /\ kb = EmptyKb
    /\ rq = IdleRun
    /\ msg = IdleRun

RetrieveNext == add_document \/ RetrieveStart \/ RagSearch \/ RagFinish

\* The knowledge base being built, then one retrieval against it.
SpecRetrieve == RetrieveInit /\ [][RetrieveNext]_vars

\* s is a subsequence of the distinct first occurrences of all_docs.
FirstSeenOrder(docs, all_docs) ==
    \A i \in 1..Len(docs) :
        \* docs[i] is the i-th distinct id of all_docs, at its first occurrence
        \E p \in 1..Len(all_docs) :
            /\ all_docs[p] = docs[i]
            /\ \A r \in 1..(p - 1) : all_docs[r].id # docs[i].id
            /\ Cardinality({all_docs[r].id : r \in 1..(p - 1)}) = i - 1

\* C8: dedup bound.  The documents retrieve returns hold no id twice, are
\* at most 5, and are the first-seen documents of the searches, in order.
C8_DedupBound ==
    rq.pc = "done" =>
        /\ \A i, j \in 1..Len(rq.retrieved_docs) :
              i # j => rq.retrieved_docs[i].id # rq.retrieved_docs[j].id
        /\ Len(rq.retrieved_docs) <= MAX_RETRIEVED
        /\ FirstSeenOrder(rq.retrieved_docs, rq.all_docs)
        /\ DictGet(returned.data, <<"retrieved", "_", "documents">>)
              = StoredDocuments(rq.retrieved_docs)

\* Three searches with repeated hits and more than five distinct documents.
C8_Witness ==
    /\ rq.pc = "done"
    /\ rq.searched = 3
    /\ Len(rq.all_docs) = 9
    /\ Cardinality({rq.all_docs[i].id : i \in 1..Len(rq.all_docs)}) = 6
    /\ Len(rq.retrieved_docs) = 5

\* C9: insufficiency sentinel.  Against an empty knowledge base retrieve
\* returns the fixed answer, no document and the score "0".
C9_Sentinel ==
    (rq.pc = "done" /\ Len(kb.documents) = 0) =>
        /\ DictGet(returned.data, <<"integrated", "_", "knowledge">>)
              = PyStr(INSUFFICIENT_KNOWLEDGE)
        /\ DictGet(returned.data, <<"retrieved", "_", "documents">>) = PyList(<<>>)
        /\ DictGet(returned.data, <<"reliability", "_", "score">>) = PyStr(<<"0">>)

\* A retrieval with context, three queries searched, on an empty base.
C9_Witness ==
    /\ rq.pc = "done"
    /\ Len(kb.documents) = 0
    /\ rq.has_context
    /\ rq.searched = 3
    /\ returned.op = "retrieve"

\* ------------------------------------------ AgentCoordinator.process_message

\* The truth value Python gives a str, list or dict (None is false).
Truthy(x) == x.t # "none" /\ Len(x.v) > 0

CONTEXT_JSON == <<"context", ".", "json">>

\* AgentCoordinator._get_conversation_context: the parsed context.json, {}
\* when the file is absent or does not parse.
ContextIn(dir) ==
    LET fs == {f \in dir : f.name = CONTEXT_JSON}
    IN IF fs = {} THEN PyDict(<<>>)
       ELSE LET r == json_load((CHOOSE f \in fs : TRUE).text)
            IN IF r.ok THEN r.val ELSE PyDict(<<>>)
GetContext(conversation_id) == ContextIn(files[conversation_id])

\* What the classifier may return as requires_knowledge: "Yes", "no", "yes."
ClassifierTexts == {<<"Y", "e", "s">>, <<"n", "o">>, <<"y", "e", "s", ".">>}
\* "yes", "true" and the Chinese word for yes, written here as one atom.
YES_WORDS == {<<"y", "e", "s">>, <<"t", "r", "u", "e">>, <<"U+662F">>}

\* prediction.requires_knowledge.lower() in ["是", "yes", "true"]
RequiresKnowledge(text) == Lower(text) \in YES_WORDS

\* if knowledge and knowledge != <the insufficient-knowledge sentence>
UsableKnowledge_NoSentinel(knowledge) == Truthy(knowledge)
UsableKnowledge(knowledge) ==
    Truthy(knowledge) /\ knowledge # PyStr(INSUFFICIENT_KNOWLEDGE)

\* What the chat predictor may return as response.
Responses == {<<"hello">>}
\* The fixed reply of the except branch.
ERROR_REPLY == <<"error">>

\* process_message up to the classification: the context is read.
ChatStart ==
    \E conversation_id \in {"c1"} :
        /\ msg.pc \in {"idle", "done"}
        /\ rq.pc \in {"idle", "done"}
        /\ Len(puts) < MaxSaves
        /\ msg' = [pc |-> "classify",
                   conversation_id |-> conversation_id,
                   message |-> QUERY,
                   context |-> GetContext(conversation_id),
                   requires_knowledge |-> FALSE,
                   knowledge |-> None,
                   reply |-> <<>>,
                   called |-> FALSE,
                   source |-> "none"]
        /\ rq' = IdleRun
        /\ UNCHANGED <<files, uuids, clock, puts, loaded, returned, rf, kb, co, adds, environ>>

\* MessageClassifierAgent.process: the classification is made and saved,
\* and the coordinator branches on it.
ChatClassify ==
    \E text \in ClassifierTexts :
        /\ msg.pc = "classify"
        /\ SaveEffect(<<"message", "_", "classifier">>,
                      PyDict(<< <<<<"message">>, PyStr(msg.message)>>,
                                <<<<"requires", "_", "knowledge">>,
                                  PyStr(IF RequiresKnowledge(text)
                                        THEN <<"true">> ELSE <<"false">>)>> >>),
                      <<"message", "_", "classification">>, msg.conversation_id)
        /\ msg' = [msg EXCEPT !.requires_knowledge = RequiresKnowledge(text),
                              !.called = TRUE,
                              !.pc = IF RequiresKnowledge(text) THEN "rag" ELSE "chat"]
        /\ UNCHANGED <<loaded, returned, rf, kb, rq, co, adds, environ>>

\* self.rag_engine.process(query=message, paper_context=context, ...)
ChatCallRag ==
    \E expansion \in Expansions :
        /\ msg.pc = "rag"
        /\ rq.pc = "idle"
        /\ Len(puts) < MaxSaves
        /\ rq' = RagBegin(msg.message, Truthy(msg.context), expansion,
                          msg.conversation_id)
        /\ UNCHANGED <<files, uuids, clock, puts, loaded, returned, rf, kb, msg, co, adds, environ>>

\* The test on rag_result.get('integrated_knowledge'): the knowledge is the
\* reply, or the conversational path is taken.
ChatAfterRag ==
    /\ msg.pc = "rag"
    /\ rq.pc = "done"
    /\ LET knowledge == DictGet(returned.data, <<"integrated", "_", "knowledge">>)
       IN msg' = IF UsableKnowledge(knowledge)
                 THEN [msg EXCEPT !.pc = "done", !.knowledge = knowledge,
                                  !.reply = knowledge.v, !.source = "rag"]
                 ELSE [msg EXCEPT !.pc = "chat", !.knowledge = knowledge]
    /\ UNCHANGED <<files, uuids, clock, puts, loaded, returned, rf, kb, rq, co, adds, environ>>

ChatTurn(role, content) ==
    PyDict(<< <<<<"role">>, PyStr(role)>>, <<<<"content">>, PyStr(content)>> >>)

\* The context _generate_chat_response saves: conversation_history with the
\* message and the response appended.
ContextAfterChat(context, message, response) ==
    LET h == <<"conversation", "_", "history">>
        old == IF DictGet(context, h) = None THEN <<>> ELSE DictGet(context, h).v
    IN DictSet(context, h,
               PyList(old \o <<ChatTurn(<<"user">>, message),
                               ChatTurn(<<"assistant">>, response)>>))

\* AgentCoordinator._generate_chat_response: the conversational path.
ChatRespond ==
    \E response \in Responses :
        /\ msg.pc = "chat"
        /\ files' = [files EXCEPT ![msg.conversation_id] =
                        SavedContextDir(msg.conversation_id,
                                        ContextAfterChat(msg.context, msg.message,
                                                         response))]
        /\ msg' = [msg EXCEPT !.pc = "done", !.reply = response, !.source = "chat"]
        /\ UNCHANGED <<uuids, clock, puts, loaded, returned, rf, kb, rq, co, adds, environ>>

\* The generation capability raises in the classifier, in the retrieval or
\* in the chat predictor: the except branch returns the fixed reply.
ChatFail ==
    /\ \/ msg.pc \in {"classify", "chat"}
       \/ msg.pc = "rag" /\ rq.pc = "search"
    /\ msg' = [msg EXCEPT !.pc = "done", !.reply = ERROR_REPLY, !.called = TRUE,
                          !.source = "error"]
    /\ UNCHANGED <<files, uuids, clock, puts, loaded, returned, rf, kb, rq, co, adds, environ>>

\* The knowledge base the engine loaded at construction: empty, or holding
\* a document added earlier.
ChatInit ==
    /\ InitStore
    /\ rf = IdleRun
    /\ kb \in {EmptyKb,
               KbAfterAdd(EmptyKb, <<"summary">>, BaseMetadata("c1"), 0, Uuid(0))}
    /\ rq = IdleRun
    /\ msg = IdleRun

ChatNext ==
    \/ ChatStart
    \/ ChatClassify
    \/ ChatCallRag
    \/ RagSearch
    \/ RagFinish
    \/ ChatAfterRag
    \/ ChatRespond
    \/ ChatFail

\* Messages of one session processed one after the other.
SpecChat == ChatInit /\ [][ChatNext]_vars

\* C10: knowledge gate.  The retrieval engine is called only for a message
\* classified as needing knowledge; the reply is the retrieval answer only
\* when that answer is non-empty and not the insufficient-knowledge
\* sentence; otherwise, unless the call failed, the reply is the
\* conversational one.
C10_KnowledgeGate ==
    /\ (msg.pc # "idle" /\ rq.pc # "idle") => msg.requires_knowledge
    /\ (msg.pc = "done" /\ msg.source = "rag") =>
          /\ msg.requires_knowledge
          /\ rq.pc = "done"
          /\ msg.knowledge = DictGet(returned.data, <<"integrated", "_", "knowledge">>)
          /\ msg.reply = msg.knowledge.v
          /\ msg.reply # <<>>
          /\ msg.reply # INSUFFICIENT_KNOWLEDGE
    /\ (msg.pc = "done" /\ msg.source # "rag") =>
          /\ msg.source \in {"chat", "error"}
          /\ msg.source = "chat" =>
                \/ ~msg.requires_knowledge /\ rq.pc = "idle"
                \/ /\ msg.requires_knowledge
                   /\ rq.pc = "done"
                   /\ msg.knowledge.v \in {<<>>, INSUFFICIENT_KNOWLEDGE}
    /\ msg.pc = "chat" =>
          \/ ~msg.requires_knowledge
          \/ msg.knowledge.v \in {<<>>, INSUFFICIENT_KNOWLEDGE}

\* A message needing knowledge answered by the conversational path because
\* the retrieval returned the insufficient-knowledge sentence.
C10_Witness ==
    /\ msg.pc = "done"
    /\ msg.source = "chat"
    /\ msg.requires_knowledge
    /\ msg.knowledge = PyStr(INSUFFICIENT_KNOWLEDGE)
    /\ rq.pc = "done"

\* ------------------------------------- the knowledge base and its two files

\* Every add_document call is followed step by step here: Document(), the
\* embedding, index.add, documents.append, and _save_knowledge_base with its
\* two writes (faiss.write_index, then json.dump into documents.json).
\*
\* kb.disk_index and kb.disk_docs are the contents of index.faiss and
\* documents.json.  A file that was written holds at least one entry (the
\* save follows the caller's own add), so <<>> stands for a file that does
\* not exist or, for documents.json with adds.docs_readable false, for the
\* file truncated by open(path, 'w') and not yet rewritten.
\*
\* adds.rows and adds.disk_rows are history: for each row of kb.index and of
\* kb.disk_index, the document whose vector that row is, with the id
\* add_document returned for it.  adds.appended is the order in which the
\* calls reached documents.append.

\* How many add_document calls and how many constructions of the engine
\* over the same files are followed.
MaxAdds == 3
MaxReloads == 2

\* The content types add_paper_to_knowledge_base adds for a paper with a
\* summary and key concepts.
ContentTypes == {<<"summary">>, <<"key", "_", "concepts">>}

\* metadata={**base_metadata, 'content_type': ...}
PaperMetadata(conversation_id, content_type) ==
    DictSet(BaseMetadata(conversation_id), <<"content", "_", "type">>, PyStr(content_type))

NoLoadYet == [outcome |-> "none", damaged |-> FALSE, index |-> <<>>, docs |-> <<>>]

\* The engine as constructed over an empty vector_db_path, serving the
\* given callers of add_document.
KbInit(writers) ==
    /\ files = [c \in Sessions |-> {}]
    /\ uuids = 0
    /\ clock = 0
    /\ puts = <<>>
    /\ loaded = NoLoad
    /\ returned = NoReturn
    /\ co = NoRequests
    /\ environ = Configured
    /\ rf = IdleRun
    /\ rq = IdleRun
    /\ msg = IdleRun
    /\ kb = EmptyKb
    /\ adds = [w |-> [x \in writers |-> IdleRun],
               rows |-> <<>>,
               disk_rows |-> <<>>,
               appended |-> <<>>,
               docs_readable |-> TRUE,
               calls |-> 0,
               reloads |-> 0,
               load |-> NoLoadYet]

Writers == DOMAIN adds.w
AtRest(w) == adds.w[w].pc \in {"idle", "done"}
AllAtRest == \A w \in Writers : AtRest(w)

KbFrame == UNCHANGED <<files, clock, puts, loaded, returned, rf, rq, msg, co, environ>>

\* add_document, lines 181-184: doc = Document(content, metadata) and
\* embedding = self._get_embedding(content).
AddBegin ==
    \E w \in Writers, content_type \in ContentTypes, embedding \in VecSpace :
        /\ AtRest(w)
        /\ adds.calls < MaxAdds
        /\ adds' = [adds EXCEPT
                      !.calls = @ + 1,
                      !.w[w] = [pc |-> "index",
                                doc |-> Document(content_type,
                                                 PaperMetadata("c1", content_type),
                                                 generate_id),
                                embedding |-> embedding,
                                docs_data |-> <<>>]]
        /\ uuids' = uuids + 1
        /\ UNCHANGED kb
        /\ KbFrame

\* self.index.add(np.array([embedding]))
AddIndex ==
    \E w \in Writers :
        /\ adds.w[w].pc = "index"
        /\ kb' = [kb EXCEPT !.index = Append(@, adds.w[w].embedding)]
        /\ adds' = [adds EXCEPT !.w[w].pc = "append",
                                !.rows = Append(@, adds.w[w].doc)]
        /\ UNCHANGED uuids
        /\ KbFrame

\* self.documents.append(doc): the list as it is afterwards.
Appended_AtRow(documents, doc, rows) ==
    SelectSeq(rows, LAMBDA r : r = doc \/ \E i \in 1..Len(documents) : documents[i] = r)
Appended(documents, doc, rows) == Append(documents, doc)

AddAppend ==
    \E w \in Writers :
        /\ adds.w[w].pc = "append"
        /\ kb' = [kb EXCEPT !.documents = Appended(@, adds.w[w].doc, adds.rows)]
        /\ adds' = [adds EXCEPT !.w[w].pc = "write_index",
                                !.appended = Append(@, adds.w[w].doc.id)]
        /\ UNCHANGED uuids
        /\ KbFrame

\* _save_knowledge_base: faiss.write_index(self.index, index_path)
SaveIndex ==
    \E w \in Writers :
        /\ adds.w[w].pc = "write_index"
        /\ kb' = [kb EXCEPT !.disk_index = kb.index]
        /\ adds' = [adds EXCEPT !.w[w].pc = "docs_data",
                                !.disk_rows = adds.rows]
        /\ UNCHANGED uuids
        /\ KbFrame

\* docs_data = [{'content': ..., 'metadata': ...} for doc in self.documents]:
\* the id of a document is not among what is written.
DocsData(documents) ==
    [i \in 1..Len(documents) |->
        [content |-> documents[i].content, metadata |-> documents[i].metadata]]

SaveDocsData ==
    \E w \in Writers :
        /\ adds.w[w].pc = "docs_data"
        /\ adds' = [adds EXCEPT !.w[w].pc = "open",
                                !.w[w].docs_data = DocsData(kb.documents)]
        /\ UNCHANGED <<kb, uuids>>
        /\ KbFrame

\* open(docs_path, 'w'): documents.json exists and is empty.
SaveOpen ==
    \E w \in Writers :
        /\ adds.w[w].pc = "open"
        /\ kb' = [kb EXCEPT !.disk_docs = <<>>]
        /\ adds' = [adds EXCEPT !.w[w].pc = "dump", !.docs_readable = FALSE]
        /\ UNCHANGED uuids
        /\ KbFrame

\* json.dump(docs_data, f) and the return of doc.id.
SaveDump ==
    \E w \in Writers :
        /\ adds.w[w].pc = "dump"
        /\ kb' = [kb EXCEPT !.disk_docs = adds.w[w].docs_data]
        /\ adds' = [adds EXCEPT !.w[w].pc = "done", !.docs_readable = TRUE]
        /\ UNCHANGED uuids
        /\ KbFrame

\* _load_knowledge_base, lines 137-140: the Document objects rebuilt from
\* documents.json.  No 'id' was written, so Document() draws a new uuid for
\* each of them; n uuids were drawn before.
LoadedDocuments_Reversed(docs_data, n) ==
    [i \in 1..Len(docs_data) |->
        Document(docs_data[Len(docs_data) + 1 - i].content,
                 docs_data[Len(docs_data) + 1 - i].metadata, Uuid(n + i))]
LoadedDocuments(docs_data, n) ==
    [i \in 1..Len(docs_data) |->
        Document(docs_data[i].content, docs_data[i].metadata, Uuid(n + i))]

IndexExists == kb.disk_index # <<>>
DocsExists == kb.disk_docs # <<>> \/ ~adds.docs_readable

\* The two files cannot be restored together in aligned order: one of them
\* is missing, documents.json does not parse, or their sizes differ.
Damaged ==
    /\ IndexExists \/ DocsExists
    /\ ~(/\ IndexExists
         /\ DocsExists
         /\ adds.docs_readable
         /\ Len(kb.disk_index) = Len(kb.disk_docs))

\* What _load_knowledge_base does: "loaded" when both files exist and
\* parse (their sizes are not compared), "fallback" when reading raised
\* (a message is printed and the engine goes on empty), "skipped" when a
\* file is missing (the engine goes on empty, nothing is printed).
LoadOutcome ==
    IF IndexExists /\ DocsExists
    THEN IF adds.docs_readable THEN "loaded" ELSE "fallback"
    ELSE "skipped"

\* RAGEngine.__init__ over the files as they are: _init_vector_store and
\* _load_knowledge_base.  The calls of the process before are gone.
Construct ==
    /\ adds.reloads < MaxReloads
    /\ kb' = [kb EXCEPT
                !.index = IF LoadOutcome = "loaded" THEN kb.disk_index ELSE <<>>,
                !.documents = IF LoadOutcome = "loaded"
                              THEN LoadedDocuments(kb.disk_docs, uuids) ELSE <<>>]
    /\ uuids' = IF LoadOutcome = "loaded" THEN uuids + Len(kb.disk_docs) ELSE uuids
    /\ adds' = [adds EXCEPT
                  !.w = [x \in Writers |-> IdleRun],
                  !.rows = IF LoadOutcome = "loaded" THEN adds.disk_rows ELSE <<>>,
                  !.appended = <<>>,
                  !.reloads = @ + 1,
                  !.load = [outcome |-> LoadOutcome,
                            damaged |-> Damaged,
                            index |-> kb.disk_index,
                            docs |-> kb.disk_docs]]
    /\ KbFrame

\* The service is restarted between two calls.
Restart == AllAtRest /\ Construct

\* The service stops in the middle of an add_document call (a failure of a
\* write, or the process ending) and is started again.
StopRestart == ~AllAtRest /\ Construct

KbSteps ==
    \/ AddBegin
    \/ AddIndex
    \/ AddAppend
    \/ SaveIndex
    \/ SaveDocsData
    \/ SaveOpen
    \/ SaveDump

\* One caller of add_document at a time; restarts between the calls.
SpecKb == KbInit({"w1"}) /\ [][KbSteps \/ Restart]_vars

\* One caller of add_document; the service may stop at any step.
SpecKbCrash == KbInit({"w1"}) /\ [][KbSteps \/ Restart \/ StopRestart]_vars

\* Two requests calling add_document on the same engine at the same time.
SpecKbRace == KbInit({"w1", "w2"}) /\ [][KbSteps]_vars

\* Document i is the document whose vector is index row i, as content and
\* metadata (the ids are the subject of C16).
SameDocument(d, r) == d.content = r.content /\ d.metadata = r.metadata

\* C13: index alignment.  Whenever no add_document call is under way, and
\* in particular after the persisted knowledge base was loaded again, the
\* index holds as many rows as there are documents, document i is the
\* document whose vector was inserted as row i, and the two files hold the
\* same.
C13_IndexAlignment ==
    AllAtRest =>
        /\ Len(kb.index) = Len(kb.documents)
        /\ Len(adds.rows) = Len(kb.index)
        /\ \A i \in 1..Len(kb.documents) : SameDocument(kb.documents[i], adds.rows[i])
        /\ Len(kb.disk_index) = Len(kb.disk_docs)
        /\ \A i \in 1..Len(kb.disk_docs) : SameDocument(kb.disk_docs[i], adds.disk_rows[i])

\* Two documents of different content were added and the knowledge base
\* was loaded again.
C13_Witness ==
    /\ AllAtRest
    /\ adds.load.outcome = "loaded"
    /\ Len(kb.documents) >= 2
    /\ kb.documents[1].content # kb.documents[2].content
    /\ SameDocument(kb.documents[2], adds.rows[2])

\* C14: persistence is all-or-nothing.  At every moment index.faiss and
\* documents.json hold the same number of entries.
C14_AllOrNothing == Len(kb.disk_index) = Len(kb.disk_docs)

\* C15: a knowledge base that cannot be restored in aligned order is not
\* silently replaced.  After a load that found the files damaged, no add
\* writes over what the files held.
C15_NoSilentFallback ==
    adds.load.damaged =>
        /\ kb.disk_index = adds.load.index
        /\ kb.disk_docs = adds.load.docs

\* C16: a document's id is stable.  The document at row i carries the id
\* add_document returned for it, also after the knowledge base was
\* persisted and loaded again.
C16_StableId ==
    \A i \in 1..Len(kb.documents) :
        i <= Len(adds.rows) => kb.documents[i].id = adds.rows[i].id

\* The ids in the order their vectors entered the index.
RowIds == [i \in 1..Len(adds.rows) |-> adds.rows[i].id]

\* C18: concurrent writers corrupt alignment.  When two add_document calls
\* overlap so that one inserted its vector first and appended its document
\* second, then, once both have returned, some document i is not the
\* document of index row i.
C18_RaceMisaligns ==
    (AllAtRest /\ adds.calls >= 2 /\ adds.appended # RowIds) =>
        /\ Len(kb.documents) = Len(kb.index)
        /\ \E i \in 1..Len(kb.documents) : kb.documents[i].id # adds.rows[i].id

\* Both calls have returned, both files are written, and document 1 is not
\* the document of row 1.
C18_Witness ==
    /\ AllAtRest
    /\ adds.calls = 2
    /\ Len(kb.documents) = 2
    /\ Len(kb.disk_docs) = 2
    /\ kb.documents[1].id # adds.rows[1].id
    /\ kb.disk_docs[1].content # adds.disk_rows[1].content

\* --------------------------------------------- the coordinator's operations

\* The requests the server hands to the coordinator: upload-paper
\* (analyze_paper), generate-code, evaluate-implementation and
\* refine-implementation.  co[r] is the operation request thread r is
\* running and how far it has come; a thread serves one request after the
\* other.  The steps are the places where another thread of the server can
\* run in between: the agent's call, the read of context.json, its write.

\* How many operations are followed.
MaxOps == 3

\* str(uuid.uuid4()) used as a conversation id.
AutoSession(n) == "u" \o ToString(n)

\* The session directories that can come to exist under the store.
SessionDirs == Sessions \cup {AutoSession(n) : n \in 1..(5 * MaxOps)}

\* The conversation ids a client sends: one it chose, or none.
GivenIds == {"c1", ""}

SessionInit(requests) ==
    /\ files = [c \in SessionDirs |-> {}]
    /\ uuids = 0
    /\ clock = 0
    /\ puts = <<>>
    /\ loaded = NoLoad
    /\ returned = NoReturn
    /\ rf = IdleRun
    /\ rq = IdleRun
    /\ msg = IdleRun
    /\ kb = EmptyKb
    /\ adds = NoWriters
    /\ co = [r \in requests |-> [pc |-> "idle", n |-> 0]]
    /\ environ = Configured

Requests == DOMAIN co
Free(r) == co[r].pc \in {"idle", "done"}

\* How many operations the server has accepted so far.
RECURSIVE Accepted(_)
Accepted(rs) ==
    IF rs = {} THEN 0
    ELSE LET r == CHOOSE x \in rs : TRUE IN co[r].n + Accepted(rs \ {r})

\* if not conversation_id: conversation_id = str(uuid.uuid4())
EffectiveId(given_id) == IF given_id = "" THEN AutoSession(uuids + 1) ELSE given_id

\* result["result_path"] = result_path; result["result_id"] = ...: the
\* result an agent hands back, about to be saved under the next uuid.
WithIds(result, result_type, conversation_id) ==
    DictSet(DictSet(result, <<"result", "_", "path">>,
                    PyStr(SavedPath(result_type, conversation_id))),
            <<"result", "_", "id">>,
            PyStr(ResultIdOf(SavedPath(result_type, conversation_id))))

PAPER_ANALYSIS == <<"paper", "_", "analysis">>
RESULT_ID == <<"result", "_", "id">>
RESULT_PATH == <<"result", "_", "path">>

\* result.get('data', {})
DataOf(envelope) ==
    IF DictGet(envelope, <<"data">>) = None THEN PyDict(<<>>)
    ELSE DictGet(envelope, <<"data">>)

\* The file of this name read and parsed, where it exists and parses.
ParsedFile(conversation_id, name) ==
    {json_load(f.text).val : f \in {g \in files[conversation_id] :
                                        g.name = name /\ json_load(g.text).ok}}

\* AgentCoordinator._load_paper_analysis: the analysis kept in the context
\* when its 'result_id' is the id asked for, else the data of
\* paper_analysis_<id>.json, else the data of what load_result finds, else
\* None.
load_paper_analysis(paper_id, conversation_id) ==
    LET paper_analysis == DictGet(GetContext(conversation_id), PAPER_ANALYSIS)
        named == ParsedFile(conversation_id, FileName(PAPER_ANALYSIS, paper_id))
    IN IF /\ Truthy(paper_analysis)
          /\ paper_analysis.t = "dict"
          /\ DictGet(paper_analysis, RESULT_ID) = PyStr(paper_id)
       THEN {paper_analysis}
       ELSE IF named # {} THEN {DataOf(e) : e \in named}
       ELSE {IF Truthy(e) THEN DataOf(e) ELSE None :
                e \in load_result(paper_id, conversation_id)}

\* The code types the by-name fallbacks try.
CODE_TYPES == {<<"python">>, <<"ns3">>, <<"p4">>}

\* AgentCoordinator._load_code_result and _load_evaluation_result: the data
\* of what load_result finds, else the data of <code_type>_<kind>_<id>.json
\* for one of the three code types, else None.
LoadByKind(kind, result_id, conversation_id) ==
    LET named == UNION {ParsedFile(conversation_id,
                                   FileName(ct \o <<"_", kind>>, result_id)) :
                            ct \in CODE_TYPES}
    IN UNION {IF Truthy(e) THEN {DataOf(e)}
              ELSE IF named # {} THEN {DataOf(n) : n \in named}
              ELSE {None} :
                 e \in load_result(result_id, conversation_id)}

load_code_result_Any(code_id, conversation_id) ==
    {CodeResult(<<"X">>, <<"python">>)}
load_code_result(code_id, conversation_id) == LoadByKind("code", code_id, conversation_id)
load_evaluation_result(evaluation_id, conversation_id) ==
    LoadByKind("evaluation", evaluation_id, conversation_id)

\* dict.get(key, default)
GetOr(d, key, default) == IF DictGet(d, key) = None THEN default ELSE DictGet(d, key)

\* AgentCoordinator._get_evaluation_id_for_code_type: '' when the context
\* holds no evaluation of the code type.
get_evaluation_id_for_code_type(code_type, conversation_id) ==
    LET evaluations == GetOr(GetContext(conversation_id), <<"evaluations">>, PyDict(<<>>))
    IN IF DictGet(evaluations, code_type) = None THEN <<>>
       ELSE GetOr(DictGet(evaluations, code_type), <<"evaluation", "_", "id">>,
                  PyStr(<<>>)).v

\* The ids a client asks with: the 'result_id' the operations hand back
\* for results of this kind, and the uuids their files are named with.
KnownIds(kind) ==
    {<<kind>>} \cup {puts[i].id : i \in {j \in 1..Len(puts) :
                         puts[j].result_type[Len(puts[j].result_type)] = kind}}

\* An operation as the server accepts it; 'reply_id' is the
\* 'conversation_id' of the server's response, the value the request
\* carried.
NewOp(n, op, given_id, conversation_id) ==
    [pc |-> "agent",
     n |-> n,
     op |-> op,
     given_id |-> given_id,
     reply_id |-> given_id,
     conversation_id |-> conversation_id,
     paper_id |-> <<>>,
     code_id |-> <<>>,
     code_type |-> <<>>,
     user_feedback |-> <<>>,
     input |-> None,
     evaluation |-> None,
     result |-> None,
     context |-> None,
     wrote |-> None,
     missed |-> {},
     called |-> FALSE,
     added |-> 0,
     error |-> FALSE,
     kind |-> "none"]

\* The operation has returned: its local variables are gone; what stays is
\* what it was asked, what it wrote into the context, whether it called the
\* generation capability, how many documents it added to the knowledge
\* base and what the server replied.
Returned(op, entry, error) ==
    [NewOp(op.n, op.op, op.given_id, op.conversation_id) EXCEPT
        !.pc = "done", !.code_type = op.code_type,
        !.wrote = entry, !.called = op.called, !.added = op.added,
        !.error = error]

\* return {'error': ...}: the message tells a missing result
\* ("not_found"), a missing API key ("configuration") or the exception
\* the except branch caught ("exception").
FailedWith(op, kind) == [Returned(op, None, TRUE) EXCEPT !.kind = kind]
Failed(op) == FailedWith(op, "not_found")

SessionFrame == UNCHANGED <<loaded, returned, rf, rq, msg, adds, environ>>

\* The uploaded file as save_pdf stores it.
PDF_NAME == <<"paper", ".", "pdf">>

\* upload_paper: save_pdf stores the file under the conversation id of the
\* request or, without one, under a uuid of its own; analyze_paper then
\* takes the conversation id of the request or, without one, draws another
\* uuid.
UploadPaper ==
    \E r \in Requests, given_id \in GivenIds :
        /\ Free(r)
        /\ Accepted(Requests) < MaxOps
        /\ LET pdf_dir == EffectiveId(given_id)
               conversation_id ==
                   IF given_id = "" THEN AutoSession(uuids + 2) ELSE given_id
           IN /\ files' = [files EXCEPT ![pdf_dir] =
                              WriteFile(@, PDF_NAME, <<>>)]
              /\ co' = [co EXCEPT ![r] = NewOp(co[r].n + 1, "analyze", given_id, conversation_id)]
        /\ uuids' = IF given_id = "" THEN uuids + 2 ELSE uuids
        /\ UNCHANGED <<clock, puts, kb>>
        /\ SessionFrame

\* analyze_paper, lines 176-178: without a usable OPENAI_API_KEY the
\* operation returns the error before anything else.
AnalyzeNoKey ==
    \E r \in Requests :
        /\ co[r].pc = "agent"
        /\ co[r].op = "analyze"
        /\ ~environ.api_key
        /\ co' = [co EXCEPT ![r] = FailedWith(co[r], "configuration")]
        /\ UNCHANGED <<files, uuids, clock, puts, kb>>
        /\ SessionFrame

\* analyze_paper: self.paper_analyzer.process(paper_content, conversation_id)
AnalyzeProcess ==
    \E r \in Requests, title \in {<<"X">>} :
        /\ co[r].pc = "agent"
        /\ co[r].op = "analyze"
        /\ environ.api_key
        /\ SaveWrites(<<"paper", "_", "analyzer">>, AnalysisResult(title),
                      PAPER_ANALYSIS, co[r].conversation_id)
        /\ co' = [co EXCEPT ![r].pc = "kb",
                            ![r].called = TRUE,
                            ![r].result = WithIds(AnalysisResult(title), PAPER_ANALYSIS,
                                                  co[r].conversation_id)]
        /\ UNCHANGED kb
        /\ SessionFrame

\* The fields of the analysis add_paper_to_knowledge_base adds a document
\* for, in the order it adds them, after the summary: the section, the
\* field and the content type the document gets.
INDEXED_FIELDS ==
    << <<<<"concepts">>, <<"key", "_", "concepts">>, <<"key", "_", "concepts">>>>,
       <<<<"concepts">>, <<"innovations">>, <<"innovations">>>>,
       <<<<"concepts">>, <<"technical", "_", "details">>, <<"technical", "_", "details">>>>,
       <<<<"architecture">>, <<"overview">>, <<"architecture", "_", "overview">>>>,
       <<<<"architecture">>, <<"data", "_", "flow">>, <<"data", "_", "flow">>>>,
       <<<<"architecture">>, <<"key", "_", "mechanisms">>, <<"key", "_", "mechanisms">>>>,
       <<<<"implementation">>, <<"key", "_", "algorithms">>, <<"key", "_", "algorithms">>>>,
       <<<<"implementation">>, <<"ns3", "_", "requirements">>, <<"ns3", "_", "requirements">>>>,
       <<<<"implementation">>, <<"p4", "_", "requirements">>, <<"p4", "_", "requirements">>>> >>

\* paper_analysis.get('analysis', {}).get(group, {}).get(field, '')
FieldText(paper_analysis, group, field) ==
    GetOr(GetOr(GetOr(paper_analysis, <<"analysis">>, PyDict(<<>>)), group, PyDict(<<>>)),
          field, PyStr(<<>>))

\* RAGEngine.add_paper_to_knowledge_base: the documents it adds, in order:
\* the summary when there is one, then every field above that is not
\* empty; the content is the text behind a label (written here as the
\* content type and a colon), the metadata the base metadata and the
\* content type.
PaperDocuments(paper_analysis, conversation_id) ==
    LET summary == GetOr(paper_analysis, <<"summary">>, PyStr(<<>>))
        first == IF Truthy(summary)
                 THEN <<[content_type |-> <<"summary">>, text |-> summary.v]>>
                 ELSE <<>>
        fields == SelectSeq(INDEXED_FIELDS,
                            LAMBDA gf : Truthy(FieldText(paper_analysis, gf[1], gf[2])))
        sections == first \o [i \in 1..Len(fields) |->
                                 [content_type |-> fields[i][3],
                                  text |-> FieldText(paper_analysis, fields[i][1],
                                                     fields[i][2]).v]]
    IN [i \in 1..Len(sections) |->
           [content |-> sections[i].content_type \o <<":">> \o sections[i].text,
            metadata |-> PaperMetadata(conversation_id, sections[i].content_type)]]

\* The knowledge base after add_document for the first n of the documents,
\* one after the other, with the embeddings es and the uuids from first on.
RECURSIVE KbAfterAdds(_, _, _, _, _)
KbAfterAdds(k, docs, es, first, n) ==
    IF n = 0 THEN k
    ELSE KbAfterAdd(KbAfterAdds(k, docs, es, first, n - 1),
                    docs[n].content, docs[n].metadata, es[n], Uuid(first + n))

\* analyze_paper: self.rag_engine.add_paper_to_knowledge_base(...)
AnalyzeAddToKb ==
    \E r \in Requests :
        /\ co[r].pc = "kb"
        /\ LET docs == PaperDocuments(co[r].result, co[r].conversation_id)
           IN /\ \E es \in [1..Len(docs) -> VecSpace] :
                    kb' = KbAfterAdds(kb, docs, es, uuids, Len(docs))
              /\ uuids' = uuids + Len(docs)
        /\ co' = [co EXCEPT ![r].pc = "replace",
                            ![r].added = Len(PaperDocuments(co[r].result,
                                                            co[r].conversation_id))]
        /\ UNCHANGED <<files, clock, puts>>
        /\ SessionFrame

\* What an update of the context leaves in the records of the requests
\* that have read the same context and not yet written it back.
Overtaken(r, conversation_id, entry) ==
    [x \in Requests |->
        IF x # r /\ co[x].pc = "write" /\ co[x].conversation_id = conversation_id
        THEN [co[x] EXCEPT !.missed = @ \cup {entry}]
        ELSE co[x]]

\* analyze_paper, lines 199-201:
\*   self._save_conversation_context(conversation_id, {'paper_analysis': analysis_result})
AnalyzeSaveContext ==
    \E r \in Requests :
        /\ co[r].pc = "replace"
        /\ LET c == co[r].conversation_id
               entry == [key |-> PAPER_ANALYSIS, code_type |-> <<>>, value |-> co[r].result]
           IN /\ files' = [files EXCEPT ![c] =
                              SavedContextDir(c, PyDict(<< <<PAPER_ANALYSIS, co[r].result>> >>))]
              /\ co' = [Overtaken(r, c, entry) EXCEPT ![r] = Returned(co[r], entry, FALSE)]
        /\ UNCHANGED <<uuids, clock, puts, kb>>
        /\ SessionFrame

\* Every other operation begins the same way: the conversation id of the
\* request or a new uuid.
Accept(r, op, given_id) ==
    /\ Free(r)
    /\ Accepted(Requests) < MaxOps
    /\ uuids' = IF given_id = "" THEN uuids + 1 ELSE uuids
    /\ UNCHANGED <<files, clock, puts, kb>>
    /\ SessionFrame

\* generate_code(paper_id, code_type, conversation_id)
GenerateCode ==
    \E r \in Requests, given_id \in {"c1"}, paper_id \in KnownIds("analysis"),
       code_type \in CodeTypes :
        /\ Accept(r, "generate", given_id)
        /\ co' = [co EXCEPT ![r] =
                    [NewOp(co[r].n + 1, "generate", given_id, EffectiveId(given_id)) EXCEPT
                        !.paper_id = paper_id, !.code_type = code_type]]

\* generate_code: the paper analysis is loaded and
\* self.code_generator.process(paper_analysis, code_type, conversation_id)
GenerateProcess ==
    \E r \in Requests :
        /\ co[r].pc = "agent"
        /\ co[r].op = "generate"
        /\ \E paper_analysis \in load_paper_analysis(co[r].paper_id, co[r].conversation_id) :
            IF Truthy(paper_analysis)
            THEN LET code_result ==
                         CodeResult(GetOr(paper_analysis, <<"title">>, PyStr(<<>>)).v,
                                    co[r].code_type)
                     result_type == co[r].code_type \o <<"_", "code">>
                 IN /\ SaveWrites(<<"code", "_", "generator">>, code_result, result_type,
                                  co[r].conversation_id)
                    /\ co' = [co EXCEPT ![r].pc = "read",
                                        ![r].called = TRUE,
                                        ![r].result = WithIds(code_result, result_type,
                                                              co[r].conversation_id)]
            ELSE /\ co' = [co EXCEPT ![r] = Failed(co[r])]
                 /\ UNCHANGED <<files, uuids, clock, puts>>
        /\ UNCHANGED kb
        /\ SessionFrame

\* code_result.get('code_type', 'unknown')
CodeTypeOf(code_result) == GetOr(code_result, <<"code", "_", "type">>, PyStr(<<"unknown">>)).v

\* evaluate_implementation(paper_id, code_id, conversation_id)
EvaluateImplementation ==
    \E r \in Requests, given_id \in {"c1"}, paper_id \in KnownIds("analysis"),
       code_id \in KnownIds("code") :
        /\ Accept(r, "evaluate", given_id)
        /\ co' = [co EXCEPT ![r] =
                    [NewOp(co[r].n + 1, "evaluate", given_id, EffectiveId(given_id)) EXCEPT
                        !.paper_id = paper_id, !.code_id = code_id]]

\* evaluate_implementation: the analysis and the code result are loaded and
\* self.evaluator.process(paper_analysis, code_result, conversation_id)
EvaluateProcess ==
    \E r \in Requests :
        /\ co[r].pc = "agent"
        /\ co[r].op = "evaluate"
        /\ \E paper_analysis \in load_paper_analysis(co[r].paper_id, co[r].conversation_id),
              code_result \in load_code_result(co[r].code_id, co[r].conversation_id) :
            IF Truthy(paper_analysis) /\ Truthy(code_result)
            THEN LET code_type == CodeTypeOf(code_result)
                     result_type == code_type \o <<"_", "evaluation">>
                 IN /\ SaveWrites(<<"evaluator">>, EvaluationResult(code_type),
                                  result_type, co[r].conversation_id)
                    /\ co' = [co EXCEPT ![r].pc = "read",
                                        ![r].called = TRUE,
                                        ![r].code_type = code_type,
                                        ![r].result = WithIds(EvaluationResult(code_type),
                                                              result_type,
                                                              co[r].conversation_id)]
            ELSE /\ co' = [co EXCEPT ![r] = Failed(co[r])]
                 /\ UNCHANGED <<files, uuids, clock, puts>>
        /\ UNCHANGED kb
        /\ SessionFrame

\* refine_implementation(paper_id, code_id, feedback, conversation_id)
RefineImplementation ==
    \E r \in Requests, given_id \in {"c1"}, paper_id \in KnownIds("analysis"),
       code_id \in KnownIds("code"), feedback \in Feedbacks :
        /\ Accept(r, "refine", given_id)
        /\ co' = [co EXCEPT ![r] =
                    [NewOp(co[r].n + 1, "refine", given_id, EffectiveId(given_id)) EXCEPT
                        !.paper_id = paper_id, !.code_id = code_id,
                        !.user_feedback = feedback]]

\* refine_implementation, lines 331-352: the code result is loaded; the
\* evaluation the context names for its code type is loaded, or one is made
\* (and saved) by the evaluator when the context names none.
RefineEvaluation ==
    \E r \in Requests :
        /\ co[r].pc = "agent"
        /\ co[r].op = "refine"
        /\ \E code_result \in load_code_result(co[r].code_id, co[r].conversation_id) :
            LET c == co[r].conversation_id
                code_type == CodeTypeOf(code_result)
                evaluation_id == get_evaluation_id_for_code_type(code_type, c)
                result_type == code_type \o <<"_", "evaluation">>
            IN IF ~Truthy(code_result)
               THEN /\ co' = [co EXCEPT ![r] = Failed(co[r])]
                    /\ UNCHANGED <<files, uuids, clock, puts>>
               ELSE IF evaluation_id # <<>>
               THEN /\ \E evaluation \in load_evaluation_result(evaluation_id, c) :
                          co' = [co EXCEPT ![r].pc = "refiner",
                                           ![r].code_type = code_type,
                                           ![r].input = code_result,
                                           ![r].evaluation = evaluation]
                    /\ UNCHANGED <<files, uuids, clock, puts>>
               ELSE \E paper_analysis \in load_paper_analysis(co[r].paper_id, c) :
                        IF Truthy(paper_analysis)
                        THEN /\ SaveWrites(<<"evaluator">>, EvaluationResult(code_type),
                                           result_type, c)
                             /\ co' = [co EXCEPT
                                         ![r].pc = "refiner",
                                         ![r].called = TRUE,
                                         ![r].code_type = code_type,
                                         ![r].input = code_result,
                                         ![r].evaluation =
                                             WithIds(EvaluationResult(code_type),
                                                     result_type, c)]
                        ELSE /\ co' = [co EXCEPT ![r] = Failed(co[r])]
                             /\ UNCHANGED <<files, uuids, clock, puts>>
        /\ UNCHANGED kb
        /\ SessionFrame

\* A run of Refiner.process that ends after its first iteration with no
\* remaining issues (the loop itself is followed in SpecRefine).
RefinerRun(code_result, code_type, refined_code) ==
    LET original_code ==
            GetOr(GetOr(code_result, <<"implementation">>, PyDict(<<>>)),
                  <<"code">>, PyStr(<<>>)).v
    IN [code_type |-> code_type,
        original_code |-> original_code,
        current_code |-> refined_code,
        refinement_history |-> <<[iteration |-> 1,
                                  refined_code |-> refined_code,
                                  remaining_issues |-> TextNone]>>]

\* refine_implementation: self.refiner.process(code_result, evaluation_result,
\* user_feedback, conversation_id)
RefineProcess ==
    \E r \in Requests, refined_code \in {<<"c1">>} :
        /\ co[r].pc = "refiner"
        /\ LET refined_result ==
                   RefinedResult(RefinerRun(co[r].input, co[r].code_type, refined_code))
               result_type == co[r].code_type \o <<"_", "refined">>
           IN /\ SaveWrites(<<"refiner">>, refined_result, result_type,
                            co[r].conversation_id)
              /\ co' = [co EXCEPT ![r].pc = "read",
                                  ![r].called = TRUE,
                                  ![r].result = WithIds(refined_result, result_type,
                                                        co[r].conversation_id)]
        /\ UNCHANGED kb
        /\ SessionFrame

\* context = self._get_conversation_context(conversation_id)
ReadContext ==
    \E r \in Requests :
        /\ co[r].pc = "read"
        /\ co' = [co EXCEPT ![r].pc = "write",
                            ![r].context = GetContext(co[r].conversation_id),
                            ![r].missed = {}]
        /\ UNCHANGED <<files, uuids, clock, puts, kb>>
        /\ SessionFrame

\* The key of the context each operation updates and the name it gives the
\* id of its result.
ContextKey(op) ==
    CASE op = "analyze" -> PAPER_ANALYSIS
      [] op = "generate" -> <<"generated", "_", "code">>
      [] op = "evaluate" -> <<"evaluations">>
      [] op = "refine" -> <<"refined", "_", "code">>
IdKey(op) ==
    CASE op = "generate" -> <<"code", "_", "id">>
      [] op = "evaluate" -> <<"evaluation", "_", "id">>
      [] op = "refine" -> <<"refined", "_", "id">>

\* {'<kind>_id': result.get('result_id', ''), 'result_path': result.get('result_path', '')}
ContextEntry(op, result) ==
    PyDict(<< <<IdKey(op), GetOr(result, RESULT_ID, PyStr(<<>>))>>,
              <<RESULT_PATH, GetOr(result, RESULT_PATH, PyStr(<<>>))>> >>)

\* if key not in context: context[key] = {};  context[key][code_type] = entry
NestedSet(context, key, code_type, entry) ==
    DictSet(context, key, DictSet(GetOr(context, key, PyDict(<<>>)), code_type, entry))

\* The context an operation writes back is built on the one it read.
ContextToUpdate_Reread(context, conversation_id) == GetContext(conversation_id)
ContextToUpdate(context, conversation_id) == context

\* The update of the context and self._save_conversation_context(...)
WriteContext ==
    \E r \in Requests :
        /\ co[r].pc = "write"
        /\ LET c == co[r].conversation_id
               key == ContextKey(co[r].op)
               value == ContextEntry(co[r].op, co[r].result)
               entry == [key |-> key, code_type |-> co[r].code_type, value |-> value]
           IN /\ files' = [files EXCEPT ![c] =
                              SavedContextDir(c, NestedSet(ContextToUpdate(co[r].context, c),
                                                           key, co[r].code_type, value))]
              /\ co' = [Overtaken(r, c, entry) EXCEPT ![r] = Returned(co[r], entry, FALSE)]
        /\ UNCHANGED <<uuids, clock, puts, kb>>
        /\ SessionFrame

SessionNext ==
    \/ UploadPaper
    \/ AnalyzeProcess
    \/ AnalyzeAddToKb
    \/ AnalyzeSaveContext
    \/ GenerateCode
    \/ GenerateProcess
    \/ EvaluateImplementation
    \/ EvaluateProcess
    \/ RefineImplementation
    \/ RefineEvaluation
    \/ RefineProcess
    \/ ReadContext
    \/ WriteContext

\* The server handling one request at a time.
SpecSession == SessionInit({"r1"}) /\ [][SessionNext]_vars

\* The server handling two requests at the same time: uploads and code
\* generation.
RaceNext ==
    \/ UploadPaper
    \/ AnalyzeProcess
    \/ AnalyzeAddToKb
    \/ AnalyzeSaveContext
    \/ GenerateCode
    \/ GenerateProcess
    \/ ReadContext
    \/ WriteContext

SpecSessionRace == SessionInit({"r1", "r2"}) /\ [][RaceNext]_vars

\* The top-level keys of a context.
KeysOf(context) == {context.v[i][1] : i \in 1..Len(context.v)}

\* The request that writes the context of session c in this step, under
\* the top-level key k.
WritesKey(c, k) ==
    \E r \in Requests :
        /\ co[r].pc \in {"replace", "write"}
        /\ co'[r].pc = "done"
        /\ co[r].conversation_id = c
        /\ ContextKey(co[r].op) = k

\* C11: the context is merged, never replaced.  In every step, every
\* top-level key of the persisted context of a session keeps its value,
\* unless the operation writing the context in that step writes that key.
C11_ContextMerged ==
    [][\A c \in SessionDirs :
          files'[c] # files[c] =>
              \A k \in KeysOf(GetContext(c)) :
                  \/ DictGet(ContextIn(files'[c]), k) = DictGet(GetContext(c), k)
                  \/ WritesKey(c, k)]_vars

\* C12: session auto-id.  An upload made without a conversation id is
\* answered with a non-empty conversation id, under which the context
\* stored by the analysis is found.
C12_AutoId ==
    \A r \in Requests :
        (co[r].pc = "done" /\ co[r].op = "analyze" /\ co[r].given_id = "") =>
            /\ co[r].reply_id # ""
            /\ DictGet(GetContext(co[r].reply_id), PAPER_ANALYSIS) # None

\* The entry e is in the context: the value written under its key (and,
\* below it, under its code type) is the one e holds.
HasEntry(context, e) ==
    IF e.key = PAPER_ANALYSIS THEN DictGet(context, e.key) = e.value
    ELSE DictGet(GetOr(context, e.key, PyDict(<<>>)), e.code_type) = e.value

\* C17: concurrent context updates lose updates.  When a request writes the
\* context back, every entry another request wrote into the same context
\* since this request read it is missing from the persisted context.
C17_LostUpdate ==
    [][\A r \in Requests :
          (co[r].pc = "write" /\ co'[r].pc = "done") =>
              \A e \in co[r].missed :
                  ~HasEntry(ContextIn(files'[co[r].conversation_id]), e)]_vars

\* Two generate requests for two code types of the same session have both
\* returned without error, and the persisted context lacks the entry one
\* of them wrote.
C17_Witness ==
    /\ co["r1"].pc = "done" /\ co["r2"].pc = "done"
    /\ co["r1"].op = "generate" /\ co["r2"].op = "generate"
    /\ ~co["r1"].error /\ ~co["r2"].error
    /\ co["r1"].conversation_id = co["r2"].conversation_id
    /\ co["r1"].code_type # co["r2"].code_type
    /\ \E r \in Requests :
          ~HasEntry(GetContext(co[r].conversation_id), co[r].wrote)

\* The files save_result has written into session c.
Artifacts(c) ==
    {f \in files[c] :
        \E i \in 1..Len(puts) :
            /\ puts[i].conversation_id = c
            /\ f.name = FileName(puts[i].result_type, puts[i].id)}

\* C19: artifacts are immutable and append-only.  In every step, every
\* artifact file of every session stays as it is, and an artifact written
\* in the step has an id no earlier artifact has.
C19_AppendOnly ==
    [][/\ \A c \in SessionDirs : \A f \in Artifacts(c) : f \in files'[c]
       /\ \A i \in (Len(puts) + 1)..Len(puts') :
             \A j \in 1..Len(puts) : puts'[i].id # puts[j].id]_vars

\* A refinement has returned in a session holding the analysis, the code,
\* the evaluation and the refined code, each in its own file with the data
\* that was stored.
C19_Witness ==
    /\ \E r \in Requests : co[r].pc = "done" /\ co[r].op = "refine" /\ ~co[r].error
    /\ Len(puts) >= 4
    /\ \A i \in 1..Len(puts) :
          \A e \in load_result(puts[i].id, puts[i].conversation_id) :
              e # None /\ DictGet(e, <<"data">>) = puts[i].data
    /\ \E i \in 1..Len(puts) :
          puts[i].result_type[Len(puts[i].result_type)] = "refined"

\* ------------------------------------------------- a store with a bad file

\* A file of the store is left cut short: save_result opens its file with
\* 'w' and writes it with json.dump, so a write that does not complete
\* leaves a prefix of the text.  json.load raises on it.  The store is
\* followed with one file cut short at a time.
DamageFile ==
    \E c \in Sessions :
        \E f \in files[c] :
            \E cut \in {Len(f.text) \div 2} :
                /\ \A d \in Sessions : \A g \in files[d] : json_load(g.text).ok
                /\ files' = [files EXCEPT ![c] =
                                WriteFile(@, f.name, SubSeq(f.text, 1, cut))]
                /\ UNCHANGED <<uuids, clock, puts, loaded, returned, rf, kb, rq, msg, co, adds, environ>>

DamagedNext == SaveResult \/ LoadResult \/ SaveContext \/ DamageFile

\* put and get over a store in which writes can be cut short.
SpecStoreDamaged == StoreInit /\ [][DamagedNext]_vars

\* Some *.json file of the session cannot be parsed.
Unreadable(c) ==
    \E f \in files[c] :
        /\ Len(f.name) >= 2
        /\ SubSeq(f.name, Len(f.name) - 1, Len(f.name)) = <<".", "json">>
        /\ ~json_load(f.text).ok

\* C20: "no artifact with this id" and "storage unreadable" are distinct
\* outcomes.  A load_result call made while a file of the session cannot be
\* parsed does not return None, the result given for an id that is absent.
C20_DistinctOutcomes ==
    [][(loaded' # loaded /\ Unreadable(loaded'.conversation_id)) =>
          loaded'.result # None]_vars

\* ------------------------------------------- the queries a retrieval searches

\* The queries the search loop has run: the first rq.searched of the list.
Searched(run) == SubSeq(run.enhanced_queries, 1, run.searched)

\* C27: every retrieval runs the caller's original query.  When a retrieval
\* has returned, the original query text is one of the queries that were
\* searched.
C27_OriginalSearched ==
    rq.pc = "done" => \E i \in 1..Len(Searched(rq)) : Searched(rq)[i] = rq.query

\* --------------------------------------------- the steps of a refinement run

\* The output of iteration k - 1: the original code before iteration 1, the
\* refiner's refined_code of the iteration before otherwise.
PreviousOutput(run, k) ==
    IF k = 1 THEN run.original_code ELSE run.refine_calls[k - 1].refined_code

\* C25: the inputs of the steps.  In every iteration k the Plan and Apply
\* steps are given the output of iteration k - 1 (the original code when
\* k = 1), Apply is given the plan of iteration k, and the Evaluate step is
\* given the run's original code together with the refined code and the
\* plan of iteration k.
C25_StepInputs ==
    Running =>
        /\ \A k \in 1..Len(rf.plan_calls) :
              rf.plan_calls[k].code = PreviousOutput(rf, k)
        /\ \A k \in 1..Len(rf.refine_calls) :
              /\ rf.refine_calls[k].original_code = PreviousOutput(rf, k)
              /\ rf.refine_calls[k].refinement_plan = rf.plan_calls[k].refinement_plan
        /\ \A k \in 1..Len(rf.evaluate_calls) :
              /\ rf.evaluate_calls[k].original_code = rf.original_code
              /\ rf.evaluate_calls[k].refined_code = rf.refine_calls[k].refined_code
              /\ rf.evaluate_calls[k].refinement_plan = rf.plan_calls[k].refinement_plan

\* Two iterations whose plans and refined codes differ from each other and
\* from the original: the second Evaluate step got the original code, the
\* second Plan and Apply steps the first iteration's output.
C25_Witness ==
    /\ Running
    /\ Len(rf.evaluate_calls) >= 2
    /\ rf.refine_calls[1].refined_code # rf.original_code
    /\ rf.refine_calls[2].refined_code # rf.refine_calls[1].refined_code
    /\ rf.plan_calls[1].refinement_plan # rf.plan_calls[2].refinement_plan
    /\ rf.plan_calls[2].code = rf.refine_calls[1].refined_code
    /\ rf.refine_calls[2].original_code = rf.refine_calls[1].refined_code
    /\ rf.evaluate_calls[2].original_code = ORIGINAL_CODE
    /\ rf.evaluate_calls[2].refined_code = rf.refine_calls[2].refined_code

\* "high priority"
HIGH_PRIORITY == <<"h", "i", "g", "h", " ", "p", "r", "i", "o", "r", "i", "t", "y">>

\* The text reports low-priority issues and no issue of high priority.
ReportsOnlyLowPriority(text) ==
    Contains(Lower(text), LOW_PRIORITY) /\ ~Contains(Lower(text), HIGH_PRIORITY)

\* C28: no early stop while an issue that is not low priority is reported.
\* A run that stopped by the break after iteration k >= 2 had, as its last
\* remaining-issues text, one that reports no issues or only low-priority
\* issues.
C28_NoEarlyStop ==
    (Stopped /\ rf.exit = "break" /\ Len(rf.refinement_history) >= 2) =>
        LET text == rf.refinement_history[Len(rf.refinement_history)].remaining_issues
        IN NoIssuesSignal(text) \/ ReportsOnlyLowPriority(text)

\* ------------------------------------------- what the session context holds

\* The operations that record their result per code type.
PerTypeOps == {"generate", "evaluate", "refine"}

\* The entries of a context below the per-code-type keys, each with the
\* name its id is recorded under.
TypeEntries(context) ==
    UNION {LET per_type == GetOr(context, ContextKey(op), PyDict(<<>>))
           IN {[id_key |-> IdKey(op), entry |-> per_type.v[i][2]] :
                  i \in 1..Len(per_type.v)} :
              op \in PerTypeOps}

\* The keys an entry may hold when it records an artifact by id and
\* location only.
REFERENCE_KEYS == {IdKey(op) : op \in PerTypeOps} \cup {RESULT_ID, RESULT_PATH}

\* The value records an artifact by id and location and holds nothing else.
ReferenceOnly(value) ==
    /\ value.t = "dict"
    /\ \A i \in 1..Len(value.v) :
          value.v[i][1] \in REFERENCE_KEYS /\ value.v[i][2].t = "str"

\* C23: the context stays small.  The persisted context of every session
\* records results as ids and locations only: the value under
\* 'paper_analysis' and every per-code-type entry holds nothing but an id
\* and a path.
C23_ContextSmall ==
    \A c \in SessionDirs :
        /\ DictGet(GetContext(c), PAPER_ANALYSIS) # None =>
              ReferenceOnly(DictGet(GetContext(c), PAPER_ANALYSIS))
        /\ \A e \in TypeEntries(GetContext(c)) : ReferenceOnly(e.entry)

\* The artifact ids a context records.
RecordedIds(context) ==
    {DictGet(e.entry, e.id_key).v : e \in TypeEntries(context)}
    \cup (IF DictGet(context, PAPER_ANALYSIS) = None THEN {}
          ELSE {GetOr(DictGet(context, PAPER_ANALYSIS), RESULT_ID, PyStr(<<>>)).v})

\* C26: referential integrity of the context.  Every artifact id recorded
\* in the persisted context of a session is the id of an artifact stored in
\* that session: load_result with it returns an envelope.
C26_ReferentialIntegrity ==
    \A c \in SessionDirs :
        \A id \in RecordedIds(GetContext(c)) :
            \A e \in load_result(id, c) : e # None


\* ------------------------------------------- failures inside the operations

\* The operation is at a call of an agent: the analyzer behind the key
\* test, the generator or the evaluator once what they need is loaded, the
\* evaluator refine_implementation calls when the context names no
\* evaluation, or the refiner.
AboutToCall(r) ==
    \/ co[r].pc = "refiner"
    \/ /\ co[r].pc = "agent"
       /\ LET c == co[r].conversation_id
              HasAnalysis == \E paper_analysis \in load_paper_analysis(co[r].paper_id, c) :
                                 Truthy(paper_analysis)
          IN CASE co[r].op = "analyze" -> environ.api_key
               [] co[r].op = "generate" -> HasAnalysis
               [] co[r].op = "evaluate" ->
                      /\ HasAnalysis
                      /\ \E code_result \in load_code_result(co[r].code_id, c) :
                             Truthy(code_result)
               [] co[r].op = "refine" ->
                      /\ HasAnalysis
                      /\ \E code_result \in load_code_result(co[r].code_id, c) :
                             /\ Truthy(code_result)
                             /\ get_evaluation_id_for_code_type(CodeTypeOf(code_result), c)
                                    = <<>>

\* The predictor raises inside the agent's process, before its save_result:
\* the except branch of the operation returns {'error': ...}.
AgentRaises ==
    \E r \in Requests :
        /\ AboutToCall(r)
        /\ co' = [co EXCEPT ![r] = FailedWith([co[r] EXCEPT !.called = TRUE], "exception")]
        /\ UNCHANGED <<files, uuids, clock, puts, kb>>
        /\ SessionFrame

\* _save_conversation_context is open(context_path, 'w') followed by
\* json.dump: when the dump raises at its first write the file, already
\* truncated by the open, stays empty, and the except branch of the
\* operation returns {'error': ...}.
ContextWriteFails ==
    \E r \in Requests :
        /\ co[r].pc \in {"replace", "write"}
        /\ files' = [files EXCEPT ![co[r].conversation_id] = WriteFile(@, CONTEXT_JSON, <<>>)]
        /\ co' = [co EXCEPT ![r] = FailedWith(co[r], "exception")]
        /\ UNCHANGED <<uuids, clock, puts, kb>>
        /\ SessionFrame

\* The same in _generate_chat_response: the except branch of
\* process_message returns the fixed reply.
ChatWriteFails ==
    /\ msg.pc = "chat"
    /\ files' = [files EXCEPT ![msg.conversation_id] = WriteFile(@, CONTEXT_JSON, <<>>)]
    /\ msg' = [msg EXCEPT !.pc = "done", !.reply = ERROR_REPLY, !.called = TRUE,
                          !.source = "error"]
    /\ UNCHANGED <<uuids, clock, puts, loaded, returned, rf, kb, rq, co, adds, environ>>

\* The server is started again with another .env: OPENAI_API_KEY set to a
\* usable key, or not.
Reconfigure ==
    /\ \A r \in Requests : Free(r)
    /\ msg.pc \in {"idle", "done"}
    /\ environ' = IF environ = Configured THEN Unconfigured ELSE Configured
    /\ UNCHANGED <<files, uuids, clock, puts, loaded, returned, rf, kb, rq, msg, co, adds>>

ServiceNext ==
    \/ SessionNext
    \/ AnalyzeNoKey
    \/ AgentRaises
    \/ ContextWriteFails
    \/ Reconfigure

\* analyze, generate, evaluate and refine, one request at a time, with the
\* failures above.
SpecService == SessionInit({"r1"}) /\ [][ServiceNext]_vars

ChatServiceNext ==
    \/ ChatNext
    \/ ChatWriteFails
    \/ Reconfigure

\* The messages of one session, with the failures above.
SpecChatService == ChatInit /\ [][ChatServiceNext]_vars


\* ---------------------------------------------------------- what is returned

\* {'error': <message>}, the message written as the kind of the failure.
ErrorResult(kind) == PyDict(<< <<<<"error">>, PyStr(<<kind>>)>> >>)

\* What process_message returns: a str in every branch.
ChatReturned(m) == PyStr(m.reply)

\* A result that tells the caller of an error: a dict with the key 'error'.
StructuredError(value) == value.t = "dict" /\ DictGet(value, <<"error">>) # None

\* C21: external failures are contained.  When the generation capability
\* raises during chat, analyze, generate, evaluate or refine, the operation
\* still returns, and what it returns is a structured error result.
C21_FailuresContained ==
    /\ \A r \in Requests :
          (co[r].pc = "done" /\ co[r].kind = "exception") =>
              StructuredError(ErrorResult(co[r].kind))
    /\ (msg.pc = "done" /\ msg.source = "error") => StructuredError(ChatReturned(msg))

\* C22: configuration errors fail fast.  An operation that ends while the
\* credentials are missing ends with a configuration error and has made no
\* call of the generation capability.
C22_FailFast ==
    [][/\ \A r \in Requests :
            (~environ.api_key /\ co[r].pc # "done" /\ co'[r].pc = "done") =>
                (co'[r].kind = "configuration" /\ ~co'[r].called)
       /\ (~environ.api_key /\ msg.pc # "done" /\ msg'.pc = "done") =>
                (msg'.source = "configuration" /\ ~msg'.called)]_vars

\* The ids that match an artifact stored in the session: the id in the
\* envelope of a stored result, and the 'result_id' handed back for it.
StoredIds(conversation_id) ==
    UNION {{puts[i].id, ResultIdOf(FileName(puts[i].result_type, puts[i].id))} :
              i \in {j \in 1..Len(puts) : puts[j].conversation_id = conversation_id}}

\* generate or evaluate is about to load what it was asked for, and an id
\* it was given matches no stored artifact of its session.
AsksForMissing(r) ==
    /\ co[r].pc = "agent"
    /\ \/ co[r].op = "generate" /\ co[r].paper_id \notin StoredIds(co[r].conversation_id)
       \/ /\ co[r].op = "evaluate"
          /\ \/ co[r].paper_id \notin StoredIds(co[r].conversation_id)
             \/ co[r].code_id \notin StoredIds(co[r].conversation_id)

\* C24: NotFound is a structured error with no side effect.  generate with
\* a paper id, or evaluate with a paper id or a code id, that matches no
\* stored artifact of the session returns a structured error without
\* calling the generation capability, writing an artifact or changing the
\* context of the session.
C24_NotFound ==
    [][\A r \in Requests :
          (AsksForMissing(r) /\ co'[r] # co[r]) =>
              /\ co'[r].pc = "done"
              /\ co'[r].error
              /\ StructuredError(ErrorResult(co'[r].kind))
              /\ co'[r].kind = "not_found"
              /\ ~co'[r].called
              /\ files' = files
              /\ puts' = puts]_vars

\* evaluate has returned the not-found error in a session that holds an
\* analysis and no code at all.
C24_Witness ==
    \E r \in Requests :
        /\ co[r].pc = "done"
        /\ co[r].op = "evaluate"
        /\ co[r].kind = "not_found"
        /\ ~co[r].called
        /\ \E i \in 1..Len(puts) :
              /\ puts[i].conversation_id = co[r].conversation_id
              /\ puts[i].result_type = PAPER_ANALYSIS
        /\ \A i \in 1..Len(puts) :
              puts[i].conversation_id = co[r].conversation_id =>
                  puts[i].result_type = PAPER_ANALYSIS
        /\ GetContext(co[r].conversation_id) # PyDict(<<>>)


\* C29: state unchanged on error.  An operation that ends with an error
\* result leaves the persisted context of its session as it was when the
\* operation started: a step of a running operation that changes the
\* persisted context is the step that ends it successfully.
C29_UnchangedOnError ==
    [][/\ \A r \in Requests :
            (/\ co[r].pc \notin {"idle", "done"}
             /\ ContextIn(files'[co[r].conversation_id])
                    # ContextIn(files[co[r].conversation_id])) =>
                (co'[r].pc = "done" /\ ~co'[r].error)
       /\ (/\ msg.pc \notin {"idle", "done"}
           /\ ContextIn(files'[msg.conversation_id]) # ContextIn(files[msg.conversation_id])) =>
                (msg'.pc = "done" /\ msg'.source # "error")]_vars


\* The artifacts the running operation has stored: the saved results whose
\* path is the 'result_path' of the result the agent handed back.
StoredByOp(r) ==
    {i \in 1..Len(puts) :
        /\ co[r].result # None
        /\ DictGet(co[r].result, RESULT_PATH)
               = PyStr(ConversationDir(puts[i].conversation_id) \o <<"/">>
                           \o FileName(puts[i].result_type, puts[i].id))}

\* The texts of an analysis that are not empty: the summary and every
\* field of every section under 'analysis'.
NonEmptyTexts(paper_analysis) ==
    LET summary == GetOr(paper_analysis, <<"summary">>, PyStr(<<>>))
        analysis == GetOr(paper_analysis, <<"analysis">>, PyDict(<<>>))
    IN {t \in {summary.v} \cup
                UNION {{analysis.v[i][2].v[j][2].v : j \in 1..Len(analysis.v[i][2].v)} :
                          i \in 1..Len(analysis.v)} :
           Len(t) > 0}

\* A document of the session in the knowledge base holds the text behind
\* its label.
InKnowledgeIndex(k, text, conversation_id) ==
    \E d \in 1..Len(k.documents) :
        LET content == k.documents[d].content
        IN /\ Len(content) > Len(text)
           /\ SubSeq(content, Len(content) - Len(text) + 1, Len(content)) = text
           /\ content[Len(content) - Len(text)] = ":"
           /\ DictGet(k.documents[d].metadata, <<"conversation", "_", "id">>)
                  = PyStr(<<conversation_id>>)

\* C30: analyze is all-or-nothing across the stores.  When analyze returns
\* successfully, its analysis artifact is stored, every non-empty section
\* of the analysis is in the knowledge index and the context records the
\* analysis; when it returns an error, it has stored no analysis artifact
\* and added no document to the knowledge index.
C30_AnalyzeAllOrNothing ==
    [][\A r \in Requests :
          (/\ co[r].pc \notin {"idle", "done"}
           /\ co[r].op = "analyze"
           /\ co'[r].pc = "done") =>
              LET c == co[r].conversation_id
              IN IF ~co'[r].error
                 THEN /\ StoredByOp(r) # {}
                      /\ \A i \in StoredByOp(r) :
                            \E f \in files'[c] :
                                f.name = FileName(puts[i].result_type, puts[i].id)
                      /\ \A text \in NonEmptyTexts(co[r].result) :
                            InKnowledgeIndex(kb', text, c)
                      /\ DictGet(ContextIn(files'[c]), PAPER_ANALYSIS) = co[r].result
                 ELSE /\ StoredByOp(r) = {}
                      /\ co[r].added = 0]_vars

====
